---- MODULE Spec2Model ----
(***************************************************************************)
(* Model of the btcx agent loop (internal/agent/loop.go) together with the *)
(* tool registry it calls into (internal/tool/tool.go).                    *)
(*                                                                         *)
(* One Ask is a sequence of rounds.  A round is: build the request and     *)
(* call the model backend (ChatOk / ChatFail), execute the requested tool  *)
(* calls one by one (ExecTool), then the end-of-round bookkeeping and stop *)
(* rules (RoundEnd).  The backend and the file system behind the tools are *)
(* the environment: the backend's answer of a round is drawn from a small  *)
(* set, the outcome of a tool call is a fixed function of its name and     *)
(* raw arguments (the tools are read-only).  Texts are TLA+ strings, so    *)
(* lengths, prefixes and substring tests are computed as the code does.    *)
(*                                                                         *)
(* SpecAgain lets further Asks follow on the same agent.  SpecStream is    *)
(* one streamed request: the StreamChat goroutine of a provider            *)
(* (internal/provider) sending events to Agent.streamChat.                 *)
(***************************************************************************)
EXTENDS Integers, Sequences, FiniteSets, TLC

VARIABLES
    pc,                 \* position of the Ask call: idle, chat, tools, endround, done
    threadNil,          \* a.Thread == nil
    thread,             \* a.Thread.Messages
    stored,             \* messages of the record held by the storage collaborator
    saves,              \* number of SaveThread calls made by this Ask
    i,                  \* loop variable of runLoop
    searchHistory,      \* loopState.searchHistory
    emptyResultCount,   \* loopState.emptyResultCount
    totalSearches,      \* loopState.totalSearches
    hintInjected,       \* loopState.hintInjected
    respToolCalls,      \* resp.ToolCalls of the current round
    tcIdx,              \* how many of them have been executed
    hasUsefulResult,    \* local of the current round
    hasRepeatedSearch,  \* local of the current round
    allToolCalls,       \* local accumulator of runLoop
    reqHints,           \* one entry per request sent in this Ask: is the hint in req.System
    reqMessages,        \* req.Messages of the last request sent
    ret,                \* what AskWithCallback returned
    exit,               \* which return statement was taken
    budget,             \* how much variety the environment may still spend
    saveLog,            \* the SaveThread calls of this Ask: messages passed, outcome
    totalUsage,         \* local accumulator of runLoop
    usageLog,           \* resp.Usage of every response the backend gave in this Ask
    asks,               \* number of Ask calls made on this agent
    adapter,            \* the provider whose StreamChat is running
    backend,            \* what the backend library has still to deliver
    producer,           \* the goroutine of StreamChat
    events,             \* the events received from the channel so far
    consumer,           \* the range loop of Agent.streamChat
    threadID,           \* a.Thread.ID ("" while a.Thread == nil)
    tools,              \* a.Tools: outputDir and threadID of the Registry
    files,              \* the full-output files written so far
    executed,           \* the last Registry.Execute of a tool with a long output
    tree,               \* the files below the root of a search
    searched,           \* the last Grep or Glob call and what it returned
    rg,                 \* the rg subprocess of a RipgrepGrep or RipgrepGlob call,
                        \* its stdout pipe and the position of the caller
    cancelled,          \* the ctx of the Ask: "no" while it is not done, then what
                        \* the call in flight did: "unwound" or "completed"
    callback            \* the callback of the Ask: whether one was given, and the
                        \* events it was called with

registryVars == <<files, executed>>

searchVars == <<tree, searched, rg>>

sideVars == <<threadID, tools, registryVars, searchVars, cancelled>>

agentVars == <<pc, threadNil, thread, stored, saves, i, searchHistory,
          emptyResultCount, totalSearches, hintInjected, respToolCalls, tcIdx,
          hasUsefulResult, hasRepeatedSearch, allToolCalls, reqHints,
          reqMessages, ret, exit, budget, saveLog, totalUsage, usageLog, asks,
          sideVars>>

streamVars == <<adapter, backend, producer, events, consumer>>

vars == <<agentVars, streamVars, callback>>

(***************************************************************************)
(* Bounds of the environment.                                              *)
(***************************************************************************)
\* Units of variety the environment may spend in one Ask.  A plain round (no
\* text, one new successful search) and a final answer are free; text next
\* to tool calls, any other call, a further call in the same round and a
\* failing save cost what Cost and SaveCost say.
MaxVariety == 3
\* Largest number of tool calls in one model response.
MaxCallsPerRound == 2
\* Ask calls on one agent in the specification with several of them.
MaxAsks == 2
\* Chunks with text or a tool call a backend delivers in one stream.
MaxChunks == 2
\* Units of variety the environment may spend in the Ask that continues a
\* stored conversation.
ResumedVariety == MaxVariety - 1
\* Files below the root of a search.
MaxTreeFiles == 3
\* Largest cap a search is given.
MaxCap == 2
\* Lines the rg subprocess has to print at most.
MaxRgOutput == 4
\* Lines the buffer of the stdout pipe holds.
PipeCapacity == 1

(***************************************************************************)
(* Program constants.                                                      *)
(***************************************************************************)
maxIterations == 10
MinUsefulLen == 30
MaxEmptyRounds == 3
HintEmptyRounds == 2
ManySearches == 8
ManySearchesEmptyRounds == 2

(***************************************************************************)
(* Strings.                                                                *)
(***************************************************************************)
UpperLetters == "ABCDEFGHIJKLMNOPQRSTUVWXYZ"
LowerLetters == "abcdefghijklmnopqrstuvwxyz"

CharAt(s, k) == SubSeq(s, k, k)

LowerOf ==
    [c \in {CharAt(UpperLetters, k) : k \in 1..26} |->
        CharAt(LowerLetters, CHOOSE k \in 1..26 : CharAt(UpperLetters, k) = c)]

LowerChar(c) == IF c \in DOMAIN LowerOf THEN LowerOf[c] ELSE c

RECURSIVE ToLower(_)
ToLower(s) ==
    IF Len(s) = 0 THEN ""
    ELSE IF Len(s) = 1 THEN LowerChar(s)
    ELSE LET h == Len(s) \div 2
         IN ToLower(SubSeq(s, 1, h)) \o ToLower(SubSeq(s, h + 1, Len(s)))

Contains(s, sub) ==
    \E k \in 1..(Len(s) - Len(sub) + 1) : SubSeq(s, k, k + Len(sub) - 1) = sub

HasPrefix(s, p) == Len(s) >= Len(p) /\ SubSeq(s, 1, Len(p)) = p

(***************************************************************************)
(* loop.go: pure helpers.                                                  *)
(***************************************************************************)
\* hex.EncodeToString(md5.Sum(b))[:8], tabulated for the byte strings this
\* model hashes.  Two of the searches, for "dcl" and for "fmvy", have the
\* same first 8 hex digits.
md5Hex8 ==
    [b \in {"grep", "read", "list", "search"} |->
        CASE b = "grep" -> "4a037fba"
          [] b = "read" -> "ecae1311"
          [] b = "list" -> "10ae9fc7"
          [] OTHER -> "06a943c5"]
    @@ ("grep{\"pattern\":\"p1\"}" :> "65277ac9")
    @@ ("grep{\"pattern\":\"p2\"}" :> "567f2e40")
    @@ ("grep{\"pattern\":\"p3\"}" :> "b0809196")
    @@ ("grep{\"pattern\":\"p4\"}" :> "518f535a")
    @@ ("grep{\"pattern\":\"p5\"}" :> "1c64f9b3")
    @@ ("grep{\"pattern\":\"p6\"}" :> "d72e8e0d")
    @@ ("grep{\"pattern\":\"p7\"}" :> "a2b2496a")
    @@ ("grep{\"pattern\":\"p8\"}" :> "c282ad99")
    @@ ("grep{\"pattern\":\"p9\"}" :> "7a174a40")
    @@ ("grep{\"pattern\":\"p10\"}" :> "999014d9")
    @@ ("grep{\"pattern\":\"zzz\"}" :> "b72b39b0")
    @@ ("grep{\"pattern\":\"dcl\"}" :> "79ddb482")
    @@ ("grep{\"pattern\":\"fmvy\"}" :> "79ddb482")
    @@ ("read{\"filePath\":\"x.go\"}" :> "ee7013b8")
    @@ ("read{\"filePath\":\"a.png\"}" :> "02934d94")
    @@ ("list{}" :> "2b43d691")
    @@ ("search{\"pattern\":\"p1\"}" :> "034d46b9")

hashToolNameOnly(name, args) == md5Hex8[name]

\* The digest is taken over the bytes of the name followed by the bytes of
\* the raw arguments.
hashToolCall(name, args) == md5Hex8[name \o args]

isEmptyResult(result) ==
    LET r == ToLower(result) IN
        \/ Contains(r, "no files found")
        \/ Contains(r, "no matches")
        \/ Contains(r, "not found")
        \/ Len(r) < MinUsefulLen

(***************************************************************************)
(* tool.go: the registry, and the tools behind it.                         *)
(***************************************************************************)
DefaultRegistry == {"grep", "glob", "read", "list"}

ArgsPattern(p) == "{\"pattern\":\"" \o p \o "\"}"
ArgsFile(f) == "{\"filePath\":\"" \o f \o "\"}"

NoError == ""
ToolOk(out) == [output |-> out, err |-> NoError]
ToolErr(e) == [output |-> "", err |-> e]

\* The output of a content search with n matching lines in main.go.
RECURSIVE GrepLines(_, _)
GrepLines(k, n) ==
    IF k > n THEN ""
    ELSE "  Line " \o ToString(k) \o ": func handler() {\n" \o GrepLines(k + 1, n)

GrepOutput(n) == "Found " \o ToString(n) \o " matches\nmain.go:\n" \o GrepLines(1, n)

\* Outputs of 133, 577, 160 and 187 characters.
GrepOutputs ==
    [p \in {"p2", "p3", "p4", "p5"} |->
        GrepOutput(CASE p = "p2" -> 4 [] p = "p3" -> 20 [] p = "p4" -> 5 [] OTHER -> 6)]

\* Tool.Execute of the four tools over a fixed working directory: the
\* directory holds main.go, in which "zzz" matches nothing, "p2" to "p5"
\* match several lines and every other pattern one line, and the binary
\* file a.png; x.go does not exist.
ToolExecute(name, args) ==
    CASE name = "grep" ->
            IF args = "{}" THEN ToolErr("pattern is required")
            ELSE IF args = ArgsPattern("zzz") THEN ToolOk("No files found")
            ELSE IF \E p \in DOMAIN GrepOutputs : args = ArgsPattern(p)
                 THEN ToolOk(GrepOutputs[CHOOSE p \in DOMAIN GrepOutputs :
                                             args = ArgsPattern(p)])
            ELSE ToolOk("Found 1 matches\nmain.go:\n  Line 7: func main() {\n")
      [] name = "glob" ->
            IF args = "{}" THEN ToolErr("pattern is required")
            ELSE IF args = ArgsPattern("*.zz") THEN ToolOk("No files found")
            ELSE ToolOk("main.go\n")
      [] name = "read" ->
            IF args = "{}" THEN ToolErr("filePath is required")
            ELSE IF args = ArgsFile("x.go") THEN ToolErr("file not found: /w/x.go")
            ELSE IF args = ArgsFile("a.png")
                 THEN ToolErr("cannot read binary file: /w/a.png")
            ELSE ToolOk("<file>\n00001| package main\n00002| func main() {}\n</file>")
      [] OTHER -> ToolOk("w/\n  main.go\n")

RegistryExecuteNoNames(name, args) ==
    IF name \notin DefaultRegistry
    THEN ToolErr("tool \"" \o name \o "\" not found")
    ELSE ToolExecute(name, args)

\* Registry.Execute; no output of these tools reaches the truncation
\* ceilings, so a result passes the truncation step unchanged.
RegistryExecute(name, args) ==
    IF name \notin DefaultRegistry
    THEN ToolErr("tool \"" \o name
                 \o "\" not found. Available tools: grep, glob, read, list")
    ELSE ToolExecute(name, args)

executeToolNoPrefix(tc) ==
    LET r == RegistryExecute(tc.name, tc.args) IN
        IF r.err # NoError THEN r.err ELSE r.output

\* Agent.executeTool: an error of the registry becomes content.
executeTool(tc) ==
    LET r == RegistryExecute(tc.name, tc.args) IN
        IF r.err # NoError THEN "Error: " \o r.err ELSE r.output

(***************************************************************************)
(* Messages of the conversation.                                           *)
(***************************************************************************)
ToolCall(id, name, args) == [id |-> id, name |-> name, args |-> args]

UserMsg(text) ==
    [role |-> "user", content |-> text, toolCalls |-> <<>>,
     toolCallID |-> "", toolResults |-> <<>>]

AssistantMsg(text, calls) ==
    [role |-> "assistant", content |-> text, toolCalls |-> calls,
     toolCallID |-> "", toolResults |-> <<>>]

ToolMsgNoId(tc, result) ==
    [role |-> "tool", content |-> result, toolCalls |-> <<>>,
     toolCallID |-> "",
     toolResults |-> <<[toolCallID |-> tc.id, output |-> result, error |-> ""]>>]

\* executeTool never returns a Go error, so the tool message always carries
\* the result as Content and as ToolResults[0].Output.
ToolMsg(tc, result) ==
    [role |-> "tool", content |-> result, toolCalls |-> <<>>,
     toolCallID |-> tc.id,
     toolResults |-> <<[toolCallID |-> tc.id, output |-> result, error |-> ""]>>]

ProviderMsg(m) ==
    CASE m.role = "user" ->
            [role |-> "user", content |-> m.content, toolCalls |-> <<>>,
             toolCallID |-> ""]
      [] m.role = "assistant" ->
            [role |-> "assistant", content |-> m.content,
             toolCalls |-> m.toolCalls, toolCallID |-> ""]
      [] OTHER ->
            [role |-> "tool",
             content |-> IF Len(m.toolResults) > 0
                         THEN IF m.toolResults[1].error # ""
                              THEN "Error: " \o m.toolResults[1].error
                              ELSE m.toolResults[1].output
                         ELSE m.content,
             toolCalls |-> <<>>, toolCallID |-> m.toolCallID]

buildMessages(msgs) == [k \in 1..Len(msgs) |-> ProviderMsg(msgs[k])]

RECURSIVE FirstAssistantContent(_)
FirstAssistantContent(msgs) ==
    IF Len(msgs) = 0 THEN ""
    ELSE LET m == msgs[1] IN
         IF m.role = "assistant" /\ m.content # "" THEN m.content
         ELSE FirstAssistantContent(SubSeq(msgs, 2, Len(msgs)))

\* The content of the last assistant message with content, "" if none.
RECURSIVE LastAssistantContent(_)
LastAssistantContent(msgs) ==
    IF Len(msgs) = 0 THEN ""
    ELSE LET m == msgs[Len(msgs)] IN
         IF m.role = "assistant" /\ m.content # "" THEN m.content
         ELSE LastAssistantContent(SubSeq(msgs, 1, Len(msgs) - 1))

FallbackAnswer == "I was unable to generate a response for this query."
IterationNote == "\n\n[Note: Response may be incomplete due to iteration limit]"
NothingFound == "I was unable to find specific information about this topic in the codebase after multiple searches. The search patterns used did not return relevant results. Try rephrasing your question or being more specific about what you're looking for."
RawResultsHead == "Based on the search results, here is what I found:\n\n"
RawResultsNote == "[Note: The model was unable to complete the response. Above are the raw search results.]"
MinRawLen == 100
MaxRawLen == 500
MaxRawResults == 3

Cut(text) == IF Len(text) > MaxRawLen THEN SubSeq(text, 1, MaxRawLen) \o "..." ELSE text

RECURSIVE usefulResults(_)
usefulResults(msgs) ==
    IF Len(msgs) = 0 THEN <<>>
    ELSE LET m == msgs[1]
             rest == usefulResults(SubSeq(msgs, 2, Len(msgs)))
         IN IF m.role = "tool" /\ Len(m.content) > MinRawLen /\ ~isEmptyResult(m.content)
            THEN <<Cut(m.content)>> \o rest
            ELSE rest

RECURSIVE JoinResults(_, _)
JoinResults(rs, k) ==
    IF k > Len(rs) \/ k > MaxRawResults THEN ""
    ELSE rs[k] \o "\n\n" \o JoinResults(rs, k + 1)

forceCompletionNoFixedMessage(msgs) ==
    LET last == LastAssistantContent(msgs)
        rs == usefulResults(msgs)
    IN IF last # "" THEN last
       ELSE IF Len(rs) > 0
            THEN RawResultsHead \o JoinResults(rs, 1) \o RawResultsNote
            ELSE ""

\* Agent.forceCompletion: the content of the forced Response.

forceCompletion(msgs) ==
    LET last == LastAssistantContent(msgs)
        rs == usefulResults(msgs)
    IN IF last # "" THEN last
       ELSE IF Len(rs) > 0
            THEN RawResultsHead \o JoinResults(rs, 1) \o RawResultsNote
            ELSE NothingFound

(***************************************************************************)
(* The environment: what the model backend answers in a round.             *)
(***************************************************************************)
Question == "What is Cobra?"

\* Text the model may put in the assistant message of round r.
AssistantText(r) == "Cobra is a CLI library (" \o ToString(r) \o ")"

\* The search a model that makes progress asks for in round r.
PlainCall(r) == [name |-> "grep", args |-> ArgsPattern("p" \o ToString(r))]

\* A search that finds nothing.
NothingCall == [name |-> "grep", args |-> ArgsPattern("zzz")]

\* Two different searches whose digests agree.
FirstOfDigest == [name |-> "grep", args |-> ArgsPattern("dcl")]
SecondOfDigest == [name |-> "grep", args |-> ArgsPattern("fmvy")]

\* Every call the model may ask for in round r: the plain one, an earlier
\* pattern again, searches that find nothing, failing reads, a short
\* listing, a tool that does not exist, and two searches with one digest,
\* the second of them only once the first was made.
OtherCalls ==
    { PlainCall(1),
      NothingCall,
      FirstOfDigest,
      [name |-> "read", args |-> ArgsFile("x.go")],
      [name |-> "read", args |-> ArgsFile("a.png")],
      [name |-> "list", args |-> "{}"],
      [name |-> "search", args |-> ArgsPattern("p1")] }

CallsOf(r) ==
    (IF \E n \in 1..Len(allToolCalls) : allToolCalls[n].args = FirstOfDigest.args
     THEN {SecondOfDigest} ELSE {}) \cup {PlainCall(r)} \cup OtherCalls

\* What a response costs the environment: nothing for the plain call in
\* first place during the first Ask and 1 during a later one, 1 for a
\* search that finds nothing and for the second search
\* of the shared digest, 2 for any other call, 1 more for every call after
\* the first, 1 for text next to the calls.
CallCost(r, c) ==
    IF c = PlainCall(r) THEN (IF asks > 1 THEN 1 ELSE 0)
    ELSE IF c \in {NothingCall, SecondOfDigest} THEN 1
    ELSE 2

PlaceCost(k) == IF k > 1 THEN 1 ELSE 0

TextCost(content) == IF content = "" THEN 0 ELSE 1

SaveCost(ok) == IF ok THEN 0 ELSE 1

RECURSIVE CallsCost(_, _, _)
CallsCost(r, calls, k) ==
    IF k > Len(calls) THEN 0
    ELSE CallCost(r, calls[k]) + PlaceCost(k) + CallsCost(r, calls, k + 1)

Cost(r, content, calls) == TextCost(content) + CallsCost(r, calls, 1)

\* The non-empty call lists of round r, from place k on, that cost at most
\* left.
RECURSIVE CallSeqsOf(_, _, _)
CallSeqsOf(r, k, left) ==
    IF k > MaxCallsPerRound THEN {}
    ELSE UNION { IF CallCost(r, c) + PlaceCost(k) > left THEN {}
                 ELSE {<<c>>} \cup
                      { <<c>> \o rest :
                          rest \in CallSeqsOf(r, k + 1,
                                              left - CallCost(r, c) - PlaceCost(k)) }
                 : c \in CallsOf(r) }

\* The backend numbers its calls.
WithIds(calls, base) ==
    [k \in 1..Len(calls) |->
        ToolCall("call_" \o ToString(base + k), calls[k].name, calls[k].args)]

(***************************************************************************)
(* Truncation of tool output (internal/tool/truncation.go).  A long output *)
(* is kept as strings.Split(output, "\n") sees it: a sequence of runs, a   *)
(* run being n lines of len bytes each, so that line counts, byte counts   *)
(* and cuts are computed as the code computes them.  The text of a line is *)
(* kept where its words matter (the annotations).                          *)
(***************************************************************************)
MaxOutputBytes == 51200
MaxOutputLines == 500

Lines(n, l) == [n |-> n, len |-> l, text |-> ""]
Note(t) == [n |-> 1, len |-> Len(t), text |-> t]

\* len(lines)
RECURSIVE LineCount(_)
LineCount(output) ==
    IF output = <<>> THEN 0 ELSE Head(output).n + LineCount(Tail(output))

RECURSIVE LineBytes(_)
LineBytes(output) ==
    IF output = <<>> THEN 0
    ELSE Head(output).n * Head(output).len + LineBytes(Tail(output))

\* len(output): the lines and the "\n" between them.
ByteLen(output) == LineBytes(output) + LineCount(output) - 1

\* strings.Join(lines[:k], "\n")
RECURSIVE FirstLines(_, _)
FirstLines(output, k) ==
    IF k = 0 \/ output = <<>> THEN <<>>
    ELSE IF Head(output).n <= k
         THEN <<Head(output)>> \o FirstLines(Tail(output), k - Head(output).n)
    ELSE <<[Head(output) EXCEPT !.n = k]>>

\* content[:b], for b < len(content): the cut may fall inside a line, and
\* right after a "\n" it leaves an empty last line.
RECURSIVE FirstBytes(_, _)
FirstBytes(content, b) ==
    LET h == Head(content)
        whole == b \div (h.len + 1)
        rest == b % (h.len + 1)
    IN IF whole >= h.n
       THEN <<h>> \o FirstBytes(Tail(content), b - h.n * (h.len + 1))
       ELSE (IF whole > 0 THEN <<[h EXCEPT !.n = whole]>> ELSE <<>>)
            \o <<[n |-> 1, len |-> rest,
                  text |-> IF h.text = "" THEN "" ELSE SubSeq(h.text, 1, rest)]>>

\* content += "\n\n" + t
AppendNote(content, t) == content \o <<Lines(1, 0), Note(t)>>

LinesNote(total) ==
    "[Output truncated at " \o ToString(MaxOutputLines) \o " lines. Total: "
    \o ToString(total) \o " lines]"

BytesNote == "[Output truncated at 50KB]"

SavedNote(path) == "[Full output saved to: " \o path \o "]"

TruncationResult(content, truncated, outputPath, err) ==
    [content |-> content, truncated |-> truncated, outputPath |-> outputPath,
     err |-> err]

\* truncateInMemory: cut by lines, then by bytes.
truncateInMemory(output) ==
    LET byLines == IF LineCount(output) > MaxOutputLines
                   THEN AppendNote(FirstLines(output, MaxOutputLines),
                                   LinesNote(LineCount(output)))
                   ELSE output
    IN TruncationResult(IF ByteLen(byLines) > MaxOutputBytes
                        THEN AppendNote(FirstBytes(byLines, MaxOutputBytes), BytesNote)
                        ELSE byLines,
                        TRUE, "", NoError)

\* filepath.Join of a directory and a name.
Join(dir, name) ==
    IF name = "" THEN dir ELSE IF dir = "" THEN name ELSE dir \o "/" \o name

needsTruncation(output) ==
    ByteLen(output) > MaxOutputBytes \/ LineCount(output) > MaxOutputLines

\* What the file system does with os.MkdirAll and os.WriteFile.
FsOutcomes == {"ok", "mkdir fails", "write fails"}

\* randomID(): four random bytes in hexadecimal.
RandomIDs == {"9f3a6c01", "00b1e2d7"}

threadDir(cfg) == Join(cfg.outputDir, cfg.threadID)

outputPath(cfg, rnd) == Join(threadDir(cfg), cfg.toolName \o "-" \o rnd \o ".txt")

TruncateOutputStorageError(output, cfg, fs, rnd) ==
    IF ~needsTruncation(output) THEN TruncationResult(output, FALSE, "", NoError)
    ELSE IF fs # "ok"
    THEN TruncationResult(output, FALSE, "", "failed to store output")
    ELSE LET result == truncateInMemory(output) IN
         TruncationResult(AppendNote(result.content, SavedNote(outputPath(cfg, rnd))),
                          TRUE, outputPath(cfg, rnd), NoError)

\* TruncateOutput: the preview, and the path of the file when it was written.
TruncateOutput(output, cfg, fs, rnd) ==
    IF ~needsTruncation(output) THEN TruncationResult(output, FALSE, "", NoError)
    ELSE IF fs # "ok" THEN truncateInMemory(output)
    ELSE LET result == truncateInMemory(output) IN
         TruncationResult(AppendNote(result.content, SavedNote(outputPath(cfg, rnd))),
                          TRUE, outputPath(cfg, rnd), NoError)

\* The files TruncateOutput leaves behind.
WrittenBy(output, cfg, fs, rnd) ==
    IF needsTruncation(output) /\ fs = "ok"
    THEN {[dir |-> threadDir(cfg), name |-> cfg.toolName \o "-" \o rnd \o ".txt"]}
    ELSE {}

\* The Registry, as far as truncation goes.
NewRegistry == [outputDir |-> "", threadID |-> ""]
SetOutputDir(r, dir) == [r EXCEPT !.outputDir = dir]
SetThreadID(r, id) == [r EXCEPT !.threadID = id]

GetTruncationConfig(r, toolName) ==
    [outputDir |-> r.outputDir, threadID |-> r.threadID, toolName |-> toolName]

\* config: the resolved output directory (DataDir/outputs).
ResolvedOutputDir == "/home/u/.local/share/btcx/outputs"

\* generateID(): the time in nanoseconds.
generateID == "1762300800000000000"

\* A conversation of an earlier run, kept by the storage collaborator.
StoredThread ==
    [id |-> "1700000000000000000",
     messages |-> <<UserMsg("What is Viper?"),
                    AssistantMsg("Viper is a configuration library.", <<>>)>>]

\* Long outputs of the read tool: up to 2000 lines of up to 2000 bytes.
LineCounts == {1, 500, 501, 600}
LineLengths == {20, 101, 102, 200}

LongOutputs ==
    { <<Lines(n, l)>> : n \in LineCounts, l \in LineLengths } \cup
    { <<Lines(500, 20), Lines(1, 0)>>,
      <<Lines(499, 101), Lines(1, 250), Lines(100, 10)>> }

\* Registry.Execute, lines 100-117, on the result of Tool.Execute.
ApplyTruncation(r, name, output, fs, rnd) ==
    LET t == TruncateOutput(output, GetTruncationConfig(r, name), fs, rnd) IN
        IF r.outputDir # "" /\ t.err = NoError /\ t.truncated
        THEN [output |-> t.content, truncated |-> TRUE, outputPath |-> t.outputPath]
        ELSE [output |-> output, truncated |-> FALSE, outputPath |-> ""]

NoExecution ==
    [name |-> "", output |-> <<>>, fs |-> "", thread |-> "",
     result |-> [output |-> <<>>, truncated |-> FALSE, outputPath |-> ""]]

\* No search root, no search made.
NoTree == {}
NoSearch ==
    [op |-> "none", via |-> "", cap |-> 0, raw |-> <<>>, result |-> <<>>]

\* The registry of a new agent, and nothing done with it yet.
\* No rg subprocess started.
NoSubprocess ==
    [op |-> "none", cap |-> 0, left |-> 0, pipe |-> 0, child |-> "none",
     parent |-> "none", taken |-> 0, ctxDone |-> FALSE]

NothingDone ==
    /\ files = {}
    /\ executed = NoExecution
    /\ searched = NoSearch
    /\ rg = NoSubprocess
    /\ cancelled = "no"

SideInit ==
    /\ threadID = ""
    /\ tools = SetOutputDir(NewRegistry, ResolvedOutputDir)
    /\ tree = NoTree
    /\ NothingDone

(***************************************************************************)
(* State after construction of the agent: no conversation yet.             *)
(***************************************************************************)
\* provider.Usage, and the usage the backend reports for its response of
\* round r.
NoUsage == [input |-> 0, output |-> 0, total |-> 0]

UsageOf(r, content, calls) ==
    [input |-> r,
     output |-> Len(calls) + TextCost(content),
     total |-> r + Len(calls) + TextCost(content)]

AddUsageLast(sum, u) == u

\* Lines 161-164.
AddUsage(sum, u) ==
    [input |-> sum.input + u.input,
     output |-> sum.output + u.output,
     total |-> sum.total + u.total]

NoReturn == [kind |-> "none", content |-> "", toolCalls |-> <<>>, err |-> ""]
Response(content, calls, usage) ==
    [kind |-> "response", content |-> content, toolCalls |-> calls, err |-> "",
     usage |-> usage]
Failure(e) == [kind |-> "error", content |-> "", toolCalls |-> <<>>, err |-> e]

(***************************************************************************)
(* Streaming: provider.StreamEvent, the four StreamChat producers and the  *)
(* consumer Agent.streamChat.  The channel is unbuffered, so an event is   *)
(* sent in the step in which the consumer receives it.                     *)
(***************************************************************************)
Adapters == {"anthropic", "openai", "google", "ollama"}

NoCall == [id |-> "", name |-> "", args |-> ""]

StreamEvent(type, delta, call, error, stopReason) ==
    [type |-> type, delta |-> delta, toolCall |-> call, error |-> error,
     stopReason |-> stopReason]

StreamEventText(delta) == StreamEvent("text", delta, NoCall, "", "")
StreamEventToolCall(call) == StreamEvent("tool_call", "", call, "", "")
StreamEventDone(stopReason) == StreamEvent("done", "", NoCall, "", stopReason)
StreamEventError(error) == StreamEvent("error", "", NoCall, error, "")

\* The tool calls a backend may ask for in a stream.
StreamCalls ==
    { ToolCall("call_1", "grep", ArgsPattern("p1")),
      ToolCall("call_2", "read", ArgsFile("x.go")) }

\* What the backend library hands over, chunk by chunk: a text delta or a
\* complete tool call.
Chunks ==
    { [kind |-> "text", delta |-> "Cobra ", call |-> NoCall] } \cup
    { [kind |-> "call", delta |-> "", call |-> c] : c \in StreamCalls }

Bodies == UNION { [1..n -> Chunks] : n \in 0..MaxChunks }

\* How a stream ends in the library: "end" is the regular end (io.EOF,
\* the iterator's end with the text "iterator done", Next() false without
\* Err(), CreateMessagesStream returning nil), "fail" an error returned by
\* the library.  The Anthropic library moreover may report an error through
\* OnError alone ("callback") or through OnError and its return value
\* ("both").
Endings(a) ==
    IF a = "anthropic" THEN {"end", "fail", "callback", "both"} ELSE {"end", "fail"}

\* A stream of the backend: its chunks, whether the backend tells a finish
\* reason (message_stop for Anthropic) after them, and how it ends.
\* The tool calls of a stream, in the order the backend makes them.
RECURSIVE CallsOfBody(_)
CallsOfBody(body) ==
    IF body = <<>> THEN <<>>
    ELSE (IF Head(body).kind = "call" THEN <<Head(body).call>> ELSE <<>>)
         \o CallsOfBody(Tail(body))

\* The field calls keeps the tool calls of the whole stream; body is used up
\* as the goroutine receives.
Backends(a) ==
    { [body |-> b, finish |-> f, ending |-> e, calls |-> CallsOfBody(b)] :
        b \in Bodies, f \in BOOLEAN, e \in Endings(a) }

NoBackend == [body |-> <<>>, finish |-> FALSE, ending |-> "end", calls |-> <<>>]

Producer(at, outbox, acc) == [pc |-> at, outbox |-> outbox, acc |-> acc]

Consumer(running, content, calls, stopReason, result) ==
    [running |-> running, content |-> content, toolCalls |-> calls,
     stopReason |-> stopReason, result |-> result]

NoConsumer == Consumer(FALSE, "", <<>>, "", "none")

\* The callback of an Ask: nil, or a function that has been called with
\* no event yet.
NoCallback == [given |-> FALSE, events |-> <<>>]
GivenCallback == [given |-> TRUE, events |-> <<>>]

\* if callback != nil { callback(event) }
Call(cb, e) == IF cb.given THEN [cb EXCEPT !.events = Append(cb.events, e)] ELSE cb

StreamEventToolResult(call) == StreamEvent("tool_result", "", call, "", "")

\* Agent.executeTool, lines 350-366: the callback is told before and after
\* the execution of the call.
Notified(tc) == Call(Call(callback, StreamEventToolCall(tc)), StreamEventToolResult(tc))

NoStream ==
    /\ adapter = "none"
    /\ backend = NoBackend
    /\ producer = Producer("idle", <<>>, <<>>)
    /\ events = <<>>
    /\ consumer = NoConsumer

\* The loop of an agent that was not asked anything yet.
NoAsk ==
    /\ pc = "idle"
    /\ saves = 0
    /\ i = 0
    /\ searchHistory = <<>>
    /\ emptyResultCount = 0
    /\ totalSearches = 0
    /\ hintInjected = FALSE
    /\ respToolCalls = <<>>
    /\ tcIdx = 0
    /\ hasUsefulResult = FALSE
    /\ hasRepeatedSearch = FALSE
    /\ allToolCalls = <<>>
    /\ reqHints = <<>>
    /\ reqMessages = <<>>
    /\ ret = NoReturn
    /\ exit = "none"
    /\ saveLog = <<>>
    /\ totalUsage = NoUsage
    /\ usageLog = <<>>
    /\ asks = 0

AgentInit ==
    /\ NoAsk
    /\ threadNil = TRUE
    /\ thread = <<>>
    /\ stored = <<>>
    /\ budget = MaxVariety

\* A new agent; no stream is open.
Init ==
    /\ AgentInit
    /\ SideInit
    /\ NoStream
    /\ callback = NoCallback

roundVars == <<respToolCalls, tcIdx, hasUsefulResult, hasRepeatedSearch>>
stateVars == <<searchHistory, emptyResultCount, totalSearches, hintInjected>>
reqVars == <<reqHints, reqMessages>>

\* Storage.SaveThread: the record is replaced unless the write fails.
SaveThread(record, msgs, ok) == IF ok THEN msgs ELSE record

\* One more SaveThread call, with the messages it was given.
Saved(log, msgs, ok) == Append(log, [len |-> Len(msgs), ok |-> ok])

StartAskKeepsLoopState ==
    /\ UNCHANGED <<streamVars, registryVars, searchVars, cancelled, callback>>
    /\ threadID' = IF threadNil THEN generateID ELSE threadID
    /\ tools' = IF threadNil THEN SetThreadID(tools, generateID) ELSE tools
    /\ threadNil' = FALSE
    /\ thread' = Append(thread, UserMsg(Question))
    /\ i' = 0
    /\ allToolCalls' = <<>>
    /\ reqHints' = <<>>
    /\ reqMessages' = <<>>
    /\ saves' = 0
    /\ ret' = NoReturn
    /\ exit' = "none"
    /\ saveLog' = <<>>
    /\ totalUsage' = NoUsage
    /\ usageLog' = <<>>
    /\ asks' = asks + 1
    /\ pc' = "chat"
    /\ UNCHANGED <<stored, roundVars, stateVars>>

\* AskWithCallback up to the first request of runLoop: create the thread if
\* there is none, append the question, start from a new loopState.
StartAsk ==
    /\ UNCHANGED <<streamVars, registryVars, searchVars, cancelled, callback>>
    /\ threadID' = IF threadNil THEN generateID ELSE threadID
    /\ tools' = IF threadNil THEN SetThreadID(tools, generateID) ELSE tools
    /\ threadNil' = FALSE
    /\ thread' = Append(thread, UserMsg(Question))
    /\ i' = 0
    /\ searchHistory' = <<>>
    /\ emptyResultCount' = 0
    /\ totalSearches' = 0
    /\ hintInjected' = FALSE
    /\ allToolCalls' = <<>>
    /\ reqHints' = <<>>
    /\ reqMessages' = <<>>
    /\ saves' = 0
    /\ ret' = NoReturn
    /\ exit' = "none"
    /\ saveLog' = <<>>
    /\ totalUsage' = NoUsage
    /\ usageLog' = <<>>
    /\ asks' = asks + 1
    /\ pc' = "chat"
    /\ UNCHANGED <<stored, roundVars>>

\* The first Ask on a new agent.
AskWithCallback ==
    /\ pc = "idle"
    /\ StartAsk
    /\ UNCHANGED budget

\* A further Ask on the same agent, after the previous one returned; it
\* costs the environment 1.
AskAgain ==
    /\ pc = "done"
    /\ asks < MaxAsks
    /\ budget >= 1
    /\ StartAsk
    /\ budget' = budget - 1

\* Lines 126-141: the request of the round.
SendRequest ==
    /\ reqHints' = Append(reqHints, hintInjected)
    /\ reqMessages' = buildMessages(thread)

\* Lines 143-159: the backend call (or its event stream) fails.
ChatFail ==
    /\ UNCHANGED <<streamVars, sideVars, callback>>
    /\ pc = "chat"
    /\ SendRequest
    /\ ret' = Failure("chat request failed")
    /\ exit' = "chaterr"
    /\ pc' = "done"
    /\ UNCHANGED <<threadNil, thread, stored, saves, i, stateVars, roundVars,
                   allToolCalls, budget, saveLog, totalUsage, usageLog, asks>>

AskReturnSaveError(response, saveOk) ==
    IF saveOk THEN response
    ELSE [kind |-> "error", content |-> "", toolCalls |-> <<>>,
          err |-> "failed to save thread"]

\* Lines 103-114 of AskWithCallback: a response of runLoop is returned after
\* the save, whose failure is only printed.
AskReturn(response, saveOk) == response

\* Lines 189-211 and 108-114: a response without tool calls ends the Ask.
NaturalAnswerNoHistory(content, msgs) ==
    IF content # "" THEN content ELSE FallbackAnswer

NaturalAnswer(content, msgs) ==
    IF content # "" THEN content
    ELSE IF LastAssistantContent(msgs) # "" THEN LastAssistantContent(msgs)
    ELSE FallbackAnswer

\* Lines 161-211 and 108-114: what runLoop does with the response of the
\* round, tcs being its tool calls; cost is what it costs the environment.
Respond(content, tcs, usage, ok, cost) ==
    LET msgs == Append(thread, AssistantMsg(content, tcs)) IN
        /\ thread' = msgs
        /\ allToolCalls' = allToolCalls \o tcs
        /\ totalUsage' = AddUsage(totalUsage, usage)
        /\ usageLog' = Append(usageLog, usage)
        /\ budget' = budget - cost
        /\ IF tcs = <<>>
           THEN /\ ret' = AskReturn(Response(NaturalAnswer(content, msgs),
                                             allToolCalls', totalUsage'), ok)
                /\ exit' = "natural"
                /\ pc' = "done"
                /\ stored' = SaveThread(stored, msgs, ok)
                /\ saves' = saves + 1
                /\ saveLog' = Saved(saveLog, msgs, ok)
                /\ UNCHANGED roundVars
           ELSE /\ respToolCalls' = tcs
                /\ tcIdx' = 0
                /\ hasUsefulResult' = FALSE
                /\ hasRepeatedSearch' = FALSE
                /\ pc' = "tools"
                /\ UNCHANGED <<ret, exit, stored, saves, saveLog>>

\* Lines 143-211: the backend answers with text and tool calls.
ChatOk ==
    /\ UNCHANGED <<streamVars, sideVars, callback>>
    /\ pc = "chat"
    /\ SendRequest
    /\ \E content \in {"", AssistantText(i + 1)}, ok \in BOOLEAN :
       \E calls \in IF ok THEN {<<>>} \cup CallSeqsOf(i + 1, 1, budget - TextCost(content))
                         ELSE {<<>>} :
        /\ IF calls = <<>> THEN SaveCost(ok) <= budget
                           ELSE Cost(i + 1, content, calls) <= budget
        /\ Respond(content, WithIds(calls, Len(allToolCalls)),
                   UsageOf(i + 1, content, calls), ok,
                   IF calls = <<>> THEN SaveCost(ok)
                                   ELSE Cost(i + 1, content, calls))
    /\ UNCHANGED <<threadNil, i, stateVars, asks>>

Count(h, hash) == IF hash \in DOMAIN h THEN h[hash] ELSE 0

Increment(h, hash) ==
    [x \in DOMAIN h \cup {hash} |-> IF x = hash THEN Count(h, hash) + 1 ELSE h[x]]

\* Lines 217-256, one pass of the body: count the call, execute it, append
\* its tool message.
ExecTool ==
    /\ UNCHANGED <<streamVars, sideVars>>
    /\ pc = "tools"
    /\ tcIdx < Len(respToolCalls)
    /\ callback' = Notified(respToolCalls[tcIdx + 1])
    /\ LET tc == respToolCalls[tcIdx + 1]
           hash == hashToolCall(tc.name, tc.args)
           result == executeTool(tc)
       IN /\ searchHistory' = Increment(searchHistory, hash)
          /\ totalSearches' = totalSearches + 1
          /\ hasRepeatedSearch' = (hasRepeatedSearch \/ searchHistory'[hash] > 1)
          /\ hasUsefulResult' = (hasUsefulResult \/ ~isEmptyResult(result))
          /\ thread' = Append(thread, ToolMsg(tc, result))
    /\ tcIdx' = tcIdx + 1
    /\ pc' = IF tcIdx' = Len(respToolCalls) THEN "endround" ELSE "tools"
    /\ UNCHANGED <<threadNil, stored, saves, i, emptyResultCount, hintInjected,
                   respToolCalls, allToolCalls, reqVars, ret, exit, budget,
                   saveLog, totalUsage, usageLog, asks>>

NextEmptyCountNoReset(useful, n) == IF useful THEN n ELSE n + 1

\* Lines 258-263.
NextEmptyCount(useful, n) == IF useful THEN 0 ELSE n + 1

NextHintNotKept(hint, empties, repeated) ==
    empties >= HintEmptyRounds \/ repeated

\* Lines 265-270.
NextHint(hint, empties, repeated) ==
    hint \/ empties >= HintEmptyRounds \/ repeated

MustForceLate(empties, total) ==
    \/ empties > MaxEmptyRounds
    \/ (total >= ManySearches /\ empties >= ManySearchesEmptyRounds)

MustForceFewSearches(empties, total) ==
    \/ empties >= MaxEmptyRounds
    \/ (total > ManySearches /\ empties >= ManySearchesEmptyRounds)

\* Lines 272-280.
MustForce(empties, total) ==
    \/ empties >= MaxEmptyRounds
    \/ (total >= ManySearches /\ empties >= ManySearchesEmptyRounds)

LoopContinuesOffByOne(n) == n <= maxIterations

\* Line 124: the loop condition.
LoopContinues(n) == n < maxIterations

\* Lines 288-302: the return after the last round.
ExhaustedReturn(msgs, calls, usage) ==
    IF LastAssistantContent(msgs) # ""
    THEN Response(LastAssistantContent(msgs) \o IterationNote, calls, usage)
    ELSE Failure("max iterations reached")

\* Lines 258-303 and 108-114: the end of a round.
RoundEnd ==
    /\ UNCHANGED <<streamVars, sideVars, callback>>
    /\ pc = "endround"
    /\ emptyResultCount' = NextEmptyCount(hasUsefulResult, emptyResultCount)
    /\ hintInjected' = NextHint(hintInjected, emptyResultCount', hasRepeatedSearch)
    /\ \E ok1 \in BOOLEAN, ok2 \in BOOLEAN :
        /\ SaveCost(ok1) + SaveCost(ok2) <= budget
        /\ budget' = budget - SaveCost(ok1) - SaveCost(ok2)
        /\ IF MustForce(emptyResultCount', totalSearches)
           THEN /\ ret' = AskReturn(Response(forceCompletion(thread), allToolCalls,
                                              totalUsage), ok2)
                /\ exit' = "forced"
                /\ pc' = "done"
                /\ i' = i
                /\ ok1
                /\ stored' = SaveThread(stored, thread, ok2)
                /\ saves' = saves + 1
                /\ saveLog' = Saved(saveLog, thread, ok2)
           ELSE IF LoopContinues(i + 1)
           THEN /\ i' = i + 1
                /\ pc' = "chat"
                /\ ok1 /\ ok2
                /\ UNCHANGED <<ret, exit, stored, saves, saveLog>>
           ELSE /\ i' = i + 1
                /\ pc' = "done"
                /\ IF ExhaustedReturn(thread, allToolCalls, totalUsage).kind = "response"
                   THEN /\ ret' = AskReturn(ExhaustedReturn(thread, allToolCalls,
                                                            totalUsage), ok2)
                        /\ exit' = "exhausted"
                        /\ stored' = SaveThread(SaveThread(stored, thread, ok1), thread, ok2)
                        /\ saves' = saves + 2
                        /\ saveLog' = Saved(Saved(saveLog, thread, ok1), thread, ok2)
                   ELSE /\ ret' = ExhaustedReturn(thread, allToolCalls, totalUsage)
                        /\ exit' = "maxiter"
                        /\ ok2
                        /\ stored' = SaveThread(stored, thread, ok1)
                        /\ saves' = saves + 1
                        /\ saveLog' = Saved(saveLog, thread, ok1)
    /\ UNCHANGED <<threadNil, thread, searchHistory, totalSearches, roundVars,
                   allToolCalls, reqVars, totalUsage, usageLog, asks>>

(***************************************************************************)
(* The producers.                                                          *)
(***************************************************************************)
\* google.go:197: the function name is used as the id of the call.
GoogleCall(c) == [c EXCEPT !.id = c.name]

\* The events an adapter sends for one chunk.
ChunkEvents(a, chunk) ==
    IF chunk.kind = "text" THEN <<StreamEventText(chunk.delta)>>
    ELSE IF a = "ollama" THEN <<>>
    ELSE IF a = "google" THEN <<StreamEventToolCall(GoogleCall(chunk.call))>>
    ELSE <<StreamEventToolCall(chunk.call)>>

\* ollama.go:154-170: tool calls are kept until the stream is over.
ChunkAcc(a, chunk, acc) ==
    IF a = "ollama" /\ chunk.kind = "call" THEN Append(acc, chunk.call) ELSE acc

\* The events an adapter sends when the backend tells the finish reason.
FinishEvents(a) ==
    IF a = "google" THEN <<StreamEventDone("STOP")>>
    ELSE IF a = "anthropic" THEN <<StreamEventDone("end_turn")>>
    ELSE <<>>

\* The orders in which a Go map of the calls may be walked.
Orders(acc) ==
    { [k \in 1..Len(acc) |-> acc[p[k]]] :
        p \in { q \in [1..Len(acc) -> 1..Len(acc)] :
                  \A m, n \in 1..Len(acc) : q[m] = q[n] => m = n } }

RECURSIVE CallEvents(_)
CallEvents(calls) ==
    IF calls = <<>> THEN <<>>
    ELSE (IF Head(calls).id # "" /\ Head(calls).name # ""
          THEN <<StreamEventToolCall(Head(calls))>> ELSE <<>>)
         \o CallEvents(Tail(calls))

\* The events an adapter sends when the stream is over, calls being the
\* kept tool calls in the order the map is walked.
EndEvents(a, ending, calls) ==
    CASE a = "ollama" ->
            (IF ending = "end" THEN <<StreamEventDone("stop")>>
             ELSE <<StreamEventError("stream error")>>) \o CallEvents(calls)
      [] a = "anthropic" ->
            (IF ending \in {"callback", "both"}
             THEN <<StreamEventError("anthropic error: overloaded")>> ELSE <<>>)
            \o (IF ending \in {"fail", "both"}
                THEN <<StreamEventError("stream error")>> ELSE <<>>)
      [] OTHER ->
            IF ending = "end" THEN <<StreamEventDone("stop")>>
            ELSE <<StreamEventError("stream error")>>

\* Agent.streamChat, lines 317-336: what one received event does.
Consume(c, e) ==
    CASE e.type = "text" -> [c EXCEPT !.content = c.content \o e.delta]
      [] e.type = "tool_call" -> [c EXCEPT !.toolCalls = Append(c.toolCalls, e.toolCall)]
      [] e.type = "done" -> [c EXCEPT !.stopReason = e.stopReason]
      [] OTHER -> [c EXCEPT !.running = FALSE, !.result = "error"]

\* Agent.streamChat calls StreamChat; only the Ollama adapter opens the
\* stream before it returns the channel, and that may fail.
StreamChat ==
    /\ producer.pc = "idle"
    /\ adapter \in Adapters
    /\ \E ok \in IF adapter = "ollama" THEN BOOLEAN ELSE {TRUE} :
          IF ok
          THEN /\ producer' = [producer EXCEPT !.pc = "run"]
               /\ consumer' = [consumer EXCEPT !.running = TRUE]
          ELSE /\ producer' = [producer EXCEPT !.pc = "unopened"]
               /\ consumer' = [consumer EXCEPT !.result = "error"]
    /\ UNCHANGED <<agentVars, adapter, backend, events, callback>>

\* The goroutine takes the next thing from the backend library.
Recv ==
    /\ producer.pc = "run"
    /\ producer.outbox = <<>>
    /\ IF backend.body # <<>>
       THEN /\ producer' = [producer EXCEPT
                   !.outbox = ChunkEvents(adapter, Head(backend.body)),
                   !.acc = ChunkAcc(adapter, Head(backend.body), producer.acc)]
            /\ backend' = [backend EXCEPT !.body = Tail(backend.body)]
       ELSE IF backend.finish
       THEN /\ producer' = [producer EXCEPT !.outbox = FinishEvents(adapter)]
            /\ backend' = [backend EXCEPT !.finish = FALSE]
       ELSE /\ \E calls \in Orders(producer.acc) :
                 producer' = [producer EXCEPT
                     !.pc = "exit",
                     !.outbox = EndEvents(adapter, backend.ending, calls)]
            /\ UNCHANGED backend
    /\ UNCHANGED <<agentVars, adapter, events, consumer, callback>>

\* events <- e, received by the range loop of streamChat.
Send ==
    /\ producer.outbox # <<>>
    /\ consumer.running
    /\ events' = Append(events, Head(producer.outbox))
    /\ consumer' = Consume(consumer, Head(producer.outbox))
    /\ producer' = [producer EXCEPT !.outbox = Tail(producer.outbox)]
    /\ callback' = Call(callback, Head(producer.outbox))
    /\ UNCHANGED <<agentVars, adapter, backend>>

\* defer close(events).
Close ==
    /\ producer.pc = "exit"
    /\ producer.outbox = <<>>
    /\ producer' = [producer EXCEPT !.pc = "closed"]
    /\ UNCHANGED <<agentVars, adapter, backend, events, consumer, callback>>

\* Agent.streamChat, lines 339-345: the range loop ends on the closed
\* channel and the function returns a response.
StreamChatReturn ==
    /\ producer.pc = "closed"
    /\ consumer.running
    /\ consumer' = [consumer EXCEPT !.running = FALSE, !.result = "response"]
    /\ UNCHANGED <<agentVars, adapter, backend, events, producer, callback>>

(***************************************************************************)
(* Storage: a conversation written by SaveThread and read by LoadThread    *)
(* (storage package, SaveThread / LoadThread).  The file is the output of  *)
(* json.MarshalIndent(thread, "", "  "); Arguments is a json.RawMessage,   *)
(* which Marshal compacts, MarshalIndent then indents with the rest of the *)
(* document, and Unmarshal copies as the bytes stand in the file.          *)
(***************************************************************************)
\* Depth of a tool call object in the document: thread, messages, message,
\* toolCalls, tool call.
ToolCallDepth == 5

RECURSIVE Spaces(_)
Spaces(n) == IF n = 0 THEN "" ELSE " " \o Spaces(n - 1)

\* newline of encoding/json: a line break and the indent of the depth.
Newline(depth) == "\n" \o Spaces(2 * depth)

\* json.Indent over src from byte k on: inStr is inside a string literal,
\* esc after a backslash in it, needIndent after an opening bracket.
RECURSIVE IndentFrom(_, _, _, _, _, _)
IndentFrom(src, k, depth, inStr, esc, needIndent) ==
    IF k > Len(src) THEN ""
    ELSE LET c == SubSeq(src, k, k) IN
         IF inStr
         THEN c \o IndentFrom(src, k + 1, depth, esc \/ c # "\"",
                              ~esc /\ c = "\\", FALSE)
         ELSE IF c \in {" ", "\n", "\t"}
         THEN IndentFrom(src, k + 1, depth, FALSE, FALSE, needIndent)
         ELSE IF c \in {"}", "]"}
         THEN (IF needIndent THEN c ELSE Newline(depth - 1) \o c)
              \o IndentFrom(src, k + 1, IF needIndent THEN depth ELSE depth - 1,
                            FALSE, FALSE, FALSE)
         ELSE LET d == IF needIndent THEN depth + 1 ELSE depth
                  lead == IF needIndent THEN Newline(d) ELSE ""
              IN lead \o
                 (CASE c \in {"{", "["} ->
                          c \o IndentFrom(src, k + 1, d, FALSE, FALSE, TRUE)
                    [] c = "," ->
                          c \o Newline(d) \o IndentFrom(src, k + 1, d, FALSE, FALSE, FALSE)
                    [] c = ":" ->
                          ": " \o IndentFrom(src, k + 1, d, FALSE, FALSE, FALSE)
                    [] OTHER ->
                          c \o IndentFrom(src, k + 1, d, c = "\"", FALSE, FALSE))

\* The Arguments of a tool call as they stand in the file.
StoredArguments(args) == IndentFrom(args, 1, ToolCallDepth, FALSE, FALSE, FALSE)

\* Storage.LoadThread of the file Storage.SaveThread wrote for msgs: the
\* messages as json.Unmarshal returns them.
LoadThread(msgs) ==
    [k \in 1..Len(msgs) |->
        [msgs[k] EXCEPT !.toolCalls =
            [n \in 1..Len(msgs[k].toolCalls) |->
                [msgs[k].toolCalls[n] EXCEPT !.args = StoredArguments(@)]]]]

\* Conversations earlier runs of the ask command left in the storage: a
\* text answer; a search after which the model said nothing; and a search
\* announced and answered with text.
EarlierQuestion == "What is Viper?"
EarlierCall == ToolCall("call_1", "grep", ArgsPattern("p1"))

EarlierConversations ==
    { StoredThread.messages,
      <<UserMsg(EarlierQuestion),
        AssistantMsg("", <<EarlierCall>>),
        ToolMsg(EarlierCall, executeTool(EarlierCall)),
        AssistantMsg("", <<>>)>>,
      <<UserMsg(EarlierQuestion),
        AssistantMsg("Let me search.", <<EarlierCall>>),
        ToolMsg(EarlierCall, executeTool(EarlierCall)),
        AssistantMsg("Viper reads configuration files.", <<>>)>> }

\* The ask command with --continue: GetLatestThread, then ContinueThread.
\* The environment of a continued conversation has the variety ResumedVariety.
Resume ==
    /\ pc = "idle"
    /\ threadNil
    /\ stored # <<>>
    /\ threadNil' = FALSE
    /\ threadID' = StoredThread.id
    /\ thread' = LoadThread(stored)
    /\ budget' = ResumedVariety
    /\ UNCHANGED <<pc, stored, saves, i, stateVars, roundVars, allToolCalls,
                   reqVars, ret, exit, saveLog, totalUsage, usageLog,
                   asks, tools, registryVars, searchVars, cancelled, streamVars, callback>>

\* Agent.ContinueThread: the conversation of an earlier run becomes the
\* agent's conversation; the registry is not told.
ContinueThread ==
    /\ pc = "idle"
    /\ threadNil' = FALSE
    /\ threadID' = StoredThread.id
    /\ thread' = StoredThread.messages
    /\ stored' = StoredThread.messages
    /\ UNCHANGED <<pc, saves, i, stateVars, roundVars, allToolCalls,
                   reqVars, ret, exit, budget, saveLog, totalUsage, usageLog,
                   asks, tools, registryVars, searchVars, cancelled, streamVars, callback>>

\* Registry.Execute of the read tool while the calls of a round are
\* executed, when the tool succeeds with a long output.
Execute ==
    /\ pc = "tools"
    /\ \E output \in LongOutputs, fs \in FsOutcomes, rnd \in RandomIDs :
        /\ executed' = [name |-> "read", output |-> output, fs |-> fs,
                        thread |-> threadID,
                        result |-> ApplyTruncation(tools, "read", output, fs, rnd)]
        /\ files' = IF tools.outputDir # ""
                    THEN files \cup
                         { [dir |-> f.dir, name |-> f.name, thread |-> threadID] :
                             f \in WrittenBy(output,
                                             GetTruncationConfig(tools, "read"),
                                             fs, rnd) }
                    ELSE files
    /\ UNCHANGED <<pc, threadNil, thread, stored, saves, i, stateVars, roundVars,
                   allToolCalls, reqVars, ret, exit, budget, saveLog, totalUsage,
                   usageLog, asks, threadID, tools, searchVars, cancelled,
                   streamVars, callback>>

(***************************************************************************)
(* Content search and file-name search (package search).  The root holds   *)
(* some of the files of WalkOrder, listed in the order filepath.WalkDir    *)
(* meets them; its .gitignore holds the rule "vendor/".  Every file        *)
(* matches the searched text on the lines given; the file-name pattern is  *)
(* "*.go".  rg is the external matcher; the order of its output is not     *)
(* fixed.                                                                  *)
(***************************************************************************)
DefaultMaxMatches == 100
DefaultMaxFiles == 100

File(path, mtime, lines) == [path |-> path, mtime |-> mtime, lines |-> lines]

WalkOrder ==
    << File(<<".gen.go">>, 6, <<1>>),
       File(<<".github", "ci.go">>, 5, <<2>>),
       File(<<"a.go">>, 1, <<4>>),
       File(<<"b.go">>, 2, <<3, 7>>),
       File(<<"c.go">>, 3, <<9>>),
       File(<<"notes.md">>, 7, <<>>),
       File(<<"vendor", "v.go">>, 4, <<5>>) >>

Trees ==
    { t \in SUBSET { WalkOrder[k] : k \in 1..Len(WalkOrder) } :
        Cardinality(t) <= MaxTreeFiles }

\* d.Name()
Name(f) == f.path[Len(f.path)]

\* strings.HasPrefix(d.Name(), "."), for a directory on the way and for the
\* file itself.
InHiddenDir(f) == \E k \in 1..(Len(f.path) - 1) : HasPrefix(f.path[k], ".")
HiddenFile(f) == HasPrefix(Name(f), ".")

\* ignorer.Match with the rule "vendor/".
Ignored(f) == \E k \in 1..(Len(f.path) - 1) : f.path[k] = "vendor"

\* doublestar.Match("*.go", d.Name()) and rg --glob "*.go".
MatchesPattern(f) ==
    Len(Name(f)) >= 3 /\ SubSeq(Name(f), Len(Name(f)) - 2, Len(Name(f))) = ".go"

Match(f, lineNum) == [path |-> f.path, lineNum |-> lineNum, mtime |-> f.mtime]

FileInfo(f) == [path |-> f.path, lineNum |-> 0, mtime |-> f.mtime]

\* grepFile: the matching lines of one file, in the order of the lines.
grepFile(f) == [k \in 1..Len(f.lines) |-> Match(f, f.lines[k])]

Effective(cap, default) == IF cap = 0 THEN default ELSE cap

\* matches[:cap], when there are more.
Truncate(list, cap) == IF Len(list) > cap THEN SubSeq(list, 1, cap) ELSE list

\* sort.Slice with less = ModTime.After is not stable: any order in which no
\* entry comes before a newer one.
SortSlice(list) ==
    { [k \in 1..Len(list) |-> list[p[k]]] :
        p \in { q \in [1..Len(list) -> 1..Len(list)] :
                  /\ \A m, n \in 1..Len(list) : q[m] = q[n] => m = n
                  /\ \A m \in 1..(Len(list) - 1) :
                        list[q[m]].mtime >= list[q[m + 1]].mtime } }

\* The walk of goGrep from WalkOrder[k] on: it ends when the matches
\* collected reach the cap.
RECURSIVE goGrepWalk(_, _, _, _)
goGrepWalk(t, k, matches, cap) ==
    IF k > Len(WalkOrder) THEN matches
    ELSE IF \/ WalkOrder[k] \notin t
            \/ InHiddenDir(WalkOrder[k]) \/ Ignored(WalkOrder[k])
            \/ HiddenFile(WalkOrder[k])
    THEN goGrepWalk(t, k + 1, matches, cap)
    ELSE IF Len(matches \o grepFile(WalkOrder[k])) >= cap
    THEN matches \o grepFile(WalkOrder[k])
    ELSE goGrepWalk(t, k + 1, matches \o grepFile(WalkOrder[k]), cap)

\* goGrep: what it may return.
goGrep(t, cap) ==
    { Truncate(s, Effective(cap, DefaultMaxMatches)) :
        s \in SortSlice(goGrepWalk(t, 1, <<>>, Effective(cap, DefaultMaxMatches))) }

RECURSIVE goGlobWalk(_, _, _, _)
goGlobWalk(t, k, fs, cap) ==
    IF k > Len(WalkOrder) THEN fs
    ELSE IF \/ WalkOrder[k] \notin t
            \/ InHiddenDir(WalkOrder[k]) \/ Ignored(WalkOrder[k])
            \/ HiddenFile(WalkOrder[k])
    THEN goGlobWalk(t, k + 1, fs, cap)
    ELSE LET found == IF MatchesPattern(WalkOrder[k])
                      THEN Append(fs, FileInfo(WalkOrder[k])) ELSE fs
         IN IF Len(found) >= cap THEN found
            ELSE goGlobWalk(t, k + 1, found, cap)

\* goGlob: what it may return.
goGlob(t, cap) ==
    { Truncate(s, Effective(cap, DefaultMaxFiles)) :
        s \in SortSlice(goGlobWalk(t, 1, <<>>, Effective(cap, DefaultMaxFiles))) }

Swap(list, a, b) == [list EXCEPT ![a] = list[b], ![b] = list[a]]

\* The inner loop of sortMatchesByTime, from j = b on.
RECURSIVE sortPass(_, _, _)
sortPass(list, a, b) ==
    IF b > Len(list) THEN list
    ELSE sortPass(IF list[b].mtime > list[a].mtime THEN Swap(list, a, b) ELSE list,
                  a, b + 1)

\* The outer loop of sortMatchesByTime, from i = a on.
RECURSIVE sortFrom(_, _)
sortFrom(list, a) ==
    IF a >= Len(list) THEN list ELSE sortFrom(sortPass(list, a, a + 1), a + 1)

sortMatchesNotAtAll(matches) == matches

sortMatchesByTime(matches) == sortFrom(matches, 1)

sortFilesByTime(fs) == sortFrom(fs, 1)

\* The files rg searches: --hidden takes the hidden ones in, the ignore
\* rules stay in force.
RgFiles(t) == { f \in t : ~Ignored(f) }

\* The orders in which rg may print the files of a set.
RgOrders(set) ==
    { s \in [1..Cardinality(set) -> set] :
        \A m, n \in 1..Cardinality(set) : s[m] = s[n] => m = n }

\* The output of rg: the matching lines, file after file.
RECURSIVE RgLines(_)
RgLines(order) ==
    IF order = <<>> THEN <<>> ELSE grepFile(Head(order)) \o RgLines(Tail(order))

\* The scanner loop: it breaks when the cap is reached.
Scanned(list, cap) == IF Len(list) > cap THEN SubSeq(list, 1, cap) ELSE list

\* RipgrepGrep on the output of rg.
RipgrepGrep(order, cap) ==
    sortMatchesByTime(Scanned(RgLines(order), Effective(cap, DefaultMaxMatches)))

\* RipgrepGlob on the output of rg --files --glob.
RipgrepGlob(order, cap) ==
    sortFilesByTime(Scanned([k \in 1..Len(order) |-> FileInfo(order[k])],
                            Effective(cap, DefaultMaxFiles)))

Search(op, via, cap, raw, result) ==
    [op |-> op, via |-> via, cap |-> cap, raw |-> raw, result |-> result]

\* Grep: by rg when it is installed, in process otherwise.
Grep ==
    /\ tree # NoTree
    /\ \E cap \in 0..MaxCap :
        \/ \E order \in RgOrders({ f \in RgFiles(tree) : f.lines # <<>> }) :
             searched' = Search("grep", "rg", cap, RgLines(order),
                                RipgrepGrep(order, cap))
        \/ \E result \in goGrep(tree, cap) :
             searched' = Search("grep", "go", cap, <<>>, result)
    /\ UNCHANGED <<pc, threadNil, thread, stored, saves, i, stateVars, roundVars,
                   allToolCalls, reqVars, ret, exit, budget, saveLog, totalUsage,
                   usageLog, asks, threadID, tools, registryVars, tree, rg, cancelled,
                   streamVars, callback>>

\* Glob: by rg when it is installed, in process otherwise.
Glob ==
    /\ tree # NoTree
    /\ \E cap \in 0..MaxCap :
        \/ \E order \in RgOrders({ f \in RgFiles(tree) : MatchesPattern(f) }) :
             searched' = Search("glob", "rg", cap,
                                [k \in 1..Len(order) |-> FileInfo(order[k])],
                                RipgrepGlob(order, cap))
        \/ \E result \in goGlob(tree, cap) :
             searched' = Search("glob", "go", cap, <<>>, result)
    /\ UNCHANGED <<pc, threadNil, thread, stored, saves, i, stateVars, roundVars,
                   allToolCalls, reqVars, ret, exit, budget, saveLog, totalUsage,
                   usageLog, asks, threadID, tools, registryVars, tree, rg, cancelled,
                   streamVars, callback>>

(***************************************************************************)
(* An Ask whose requests are streamed, and its cancellation.               *)
(***************************************************************************)
\* What a stream costs the environment: 1 for each of its chunks.
StreamCost(b) == Len(b.body)

\* The streams the backend may deliver for the next request.
NextStreams(a, left) == { b \in Backends(a) \cup {NoBackend} : StreamCost(b) <= left }

\* The callback of the ask command, lines 149-172: what its content
\* builder has collected, the Delta of every text event.
RECURSIVE collected(_)
collected(es) ==
    IF es = <<>> THEN ""
    ELSE (IF Head(es).type = "text" THEN Head(es).delta ELSE "") \o collected(Tail(es))

\* The ask command, lines 183-187: the content it prints for the response.
finalContent(resp) ==
    IF collected(callback.events) = "" THEN resp.content ELSE collected(callback.events)

\* Line 147: streaming is used when a callback was given, unless the
\* provider is an openai-compatible one.
OpenAICompatible == "openai-compatible"

useStreaming == callback.given /\ adapter # OpenAICompatible

\* Lines 147-159: streamChat returned the error of an Error event, or the
\* error of StreamChat.
StreamFailed ==
    /\ consumer.result = "error"
    /\ ChatFail

\* Lines 147-211: streamChat returned a response.  The stream of the round
\* is over; next is what the backend will deliver for the next request,
\* which is a failure at once when the ctx is done.
StreamAnswered ==
    /\ pc = "chat"
    /\ consumer.result = "response"
    /\ SendRequest
    /\ \E ok \in BOOLEAN, next \in NextStreams(adapter, budget) :
        /\ SaveCost(ok) + StreamCost(next) <= budget
        /\ consumer.toolCalls = <<>> => next = NoBackend
        /\ (cancelled # "no" /\ consumer.toolCalls # <<>>) =>
              next.body = <<>> /\ ~next.finish /\ next.ending # "end"
        /\ consumer.toolCalls # <<>> => ok
        /\ Respond(consumer.content, consumer.toolCalls, NoUsage, ok,
                   SaveCost(ok) + StreamCost(next))
        /\ backend' = next
    /\ producer' = Producer("idle", <<>>, <<>>)
    /\ events' = <<>>
    /\ consumer' = NoConsumer
    /\ UNCHANGED <<threadNil, i, stateVars, asks, adapter, sideVars, callback>>

\* Line 307: streamChat calls StreamChat for the request of the round.
OpenStream ==
    /\ pc = "chat"
    /\ useStreaming
    /\ StreamChat

\* Lines 147-159 without streaming: Provider.Chat answers or fails.
ChatAnswered == ~useStreaming /\ ChatOk

ChatFailed == ~useStreaming /\ ChatFail

\* The ctx of the Ask is cancelled while the stream of the round is open.
\* The library may still hand over chunks it has received; then its call
\* fails with the error of the context, unless it had received the whole
\* rest of the stream, in which case it may also end regularly.
Cancel ==
    /\ pc = "chat"
    /\ cancelled = "no"
    /\ producer.pc = "run"
    /\ \E n \in 0..Len(backend.body) :
       \E e \in (Endings(adapter) \ {"end"})
                 \cup (IF n = Len(backend.body) THEN {backend.ending} ELSE {}) :
          /\ backend' = [backend EXCEPT
                            !.body = SubSeq(backend.body, 1, n),
                            !.finish = (n = Len(backend.body) /\ backend.finish),
                            !.ending = e]
          /\ cancelled' = IF backend'.ending = "end" THEN "completed" ELSE "unwound"
    /\ UNCHANGED <<pc, threadNil, thread, stored, saves, i, stateVars, roundVars,
                   allToolCalls, reqVars, ret, exit, budget, saveLog, totalUsage,
                   usageLog, asks, threadID, tools, registryVars, searchVars,
                   adapter, producer, events, consumer, callback>>

Next ==
    \/ AskWithCallback
    \/ ChatFail
    \/ ChatOk
    \/ ExecTool
    \/ RoundEnd

Spec == Init /\ [][Next]_vars

\* Several Ask calls, one after the other, on the same agent.
NextAgain ==
    \/ Next
    \/ AskAgain

SpecAgain == Init /\ [][NextAgain]_vars

\* One streamed request: any adapter, any stream of the backend.
InitStream ==
    /\ AgentInit
    /\ SideInit
    /\ adapter \in Adapters
    /\ backend \in Backends(adapter)
    /\ producer = Producer("idle", <<>>, <<>>)
    /\ events = <<>>
    /\ consumer = NoConsumer
    /\ callback = GivenCallback

NextStream ==
    \/ StreamChat
    \/ Recv
    \/ Send
    \/ Close
    \/ StreamChatReturn

SpecStream == InitStream /\ [][NextStream]_vars

\* An agent as agent.New leaves it, with or without an output directory and
\* with or without a conversation passed in; its tools meet long outputs.
InitTrunc ==
    /\ NoAsk
    /\ budget = 0
    /\ NoStream
    /\ \E dir \in {"", ResolvedOutputDir}, given \in BOOLEAN :
        /\ tools = (IF dir # "" THEN SetOutputDir(NewRegistry, dir) ELSE NewRegistry)
        /\ threadNil = ~given
        /\ threadID = (IF given THEN StoredThread.id ELSE "")
        /\ thread = (IF given THEN StoredThread.messages ELSE <<>>)
        /\ stored = thread
    /\ tree = NoTree
    /\ NothingDone
    /\ callback = NoCallback

NextTrunc ==
    \/ Next
    \/ ContinueThread
    \/ Execute

SpecTrunc == InitTrunc /\ [][NextTrunc]_vars

(***************************************************************************)
(* The rg subprocess of RipgrepGrep and RipgrepGlob.  The caller starts rg *)
(* with exec.Command and reads its stdout pipe line by line; rg has a      *)
(* number of lines left to print and blocks in write while the buffer of   *)
(* the pipe is full.  The caller breaks out of the scanner loop at the     *)
(* cap and then calls cmd.Wait, which returns when rg has exited.  The     *)
(* functions take no context: the ctx of GrepTool.Execute is not passed    *)
(* on, so nothing the caller of the tool does reaches the subprocess.      *)
(***************************************************************************)
\* opts.MaxMatches or opts.MaxFiles after the default is filled in.
RgCap == Effective(rg.cap, IF rg.op = "grep" THEN DefaultMaxMatches ELSE DefaultMaxFiles)

\* cmd.Start in RipgrepGrep or RipgrepGlob: rg runs with some output to
\* print, the caller enters the scanner loop.
StartRg ==
    /\ rg = NoSubprocess
    /\ \E op \in {"grep", "glob"}, cap \in 0..MaxCap, lines \in 0..MaxRgOutput :
        rg' = [op |-> op, cap |-> cap, left |-> lines, pipe |-> 0,
               child |-> "run", parent |-> "scan", taken |-> 0,
               ctxDone |-> FALSE]
    /\ UNCHANGED <<pc, threadNil, thread, stored, saves, i, stateVars, roundVars,
                   allToolCalls, reqVars, ret, exit, budget, saveLog, totalUsage,
                   usageLog, asks, threadID, tools, registryVars, tree, searched,
                   cancelled, streamVars, callback>>

\* A step of the subprocess or of the caller: only rg changes.
RgStep(next) ==
    /\ rg' = next
    /\ UNCHANGED <<pc, threadNil, thread, stored, saves, i, stateVars, roundVars,
                   allToolCalls, reqVars, ret, exit, budget, saveLog, totalUsage,
                   usageLog, asks, threadID, tools, registryVars, tree, searched,
                   cancelled, streamVars, callback>>

\* rg is in write(2) on a full pipe.
RgBlockedWriting == rg.child = "run" /\ rg.left > 0 /\ rg.pipe = PipeCapacity

\* rg writes a line into the pipe.
RgWrite ==
    /\ rg.child = "run"
    /\ rg.left > 0
    /\ rg.pipe < PipeCapacity
    /\ RgStep([rg EXCEPT !.left = @ - 1, !.pipe = @ + 1])

\* rg has printed everything and exits; the write end of the pipe closes.
RgExit ==
    /\ rg.child = "run"
    /\ rg.left = 0
    /\ RgStep([rg EXCEPT !.child = "exit"])

\* rg hangs: it neither writes nor exits any more.
RgHang ==
    /\ rg.child = "run"
    /\ RgStep([rg EXCEPT !.child = "hung"])

\* scanner.Scan returns a line: one more match or file; break at the cap.
ScanLine ==
    /\ rg.parent = "scan"
    /\ rg.pipe > 0
    /\ RgStep([rg EXCEPT !.pipe = @ - 1, !.taken = @ + 1,
                         !.parent = IF rg.taken + 1 >= RgCap THEN "wait" ELSE "scan"])

\* scanner.Scan returns false: the pipe is empty and its write end is closed.
ScanEnd ==
    /\ rg.parent = "scan"
    /\ rg.pipe = 0
    /\ rg.child = "exit"
    /\ RgStep([rg EXCEPT !.parent = "wait"])

\* cmd.Wait returns once rg has exited; the function sorts and returns.
WaitReturns ==
    /\ rg.parent = "wait"
    /\ rg.child = "exit"
    /\ RgStep([rg EXCEPT !.parent = "returned"])

\* The ctx given to GrepTool.Execute is cancelled or times out.  The search
\* was called without it and rg was started without it.
CtxDone ==
    /\ rg.parent \in {"scan", "wait"}
    /\ ~rg.ctxDone
    /\ RgStep([rg EXCEPT !.ctxDone = TRUE])

\* The steps by which a started search moves on.
SearchMoves ==
    \/ RgWrite
    \/ RgExit
    \/ ScanLine
    \/ ScanEnd
    \/ WaitReturns

InitRg ==
    /\ AgentInit
    /\ NoStream
    /\ threadID = ""
    /\ tools = SetOutputDir(NewRegistry, ResolvedOutputDir)
    /\ NothingDone
    /\ tree = NoTree
    /\ callback = NoCallback

NextRg ==
    \/ StartRg
    \/ RgWrite
    \/ RgExit
    \/ RgHang
    \/ ScanLine
    \/ ScanEnd
    \/ WaitReturns
    \/ CtxDone

SpecRg == InitRg /\ [][NextRg]_vars

\* Searches below a root that holds any of the files.
InitSearch ==
    /\ AgentInit
    /\ NoStream
    /\ threadID = ""
    /\ tools = SetOutputDir(NewRegistry, ResolvedOutputDir)
    /\ NothingDone
    /\ tree \in Trees \ {NoTree}
    /\ callback = NoCallback

NextSearch ==
    \/ Grep
    \/ Glob

SpecSearch == InitSearch /\ [][NextSearch]_vars

\* One Ask with a callback: every request is streamed, and the ctx may be
\* cancelled during a stream.
InitCancel ==
    /\ NoAsk
    /\ threadNil = TRUE
    /\ thread = <<>>
    /\ stored = <<>>
    /\ SideInit
    /\ adapter \in Adapters
    /\ backend \in NextStreams(adapter, MaxVariety)
    /\ budget = MaxVariety - StreamCost(backend)
    /\ producer = Producer("idle", <<>>, <<>>)
    /\ events = <<>>
    /\ consumer = NoConsumer
    /\ callback = GivenCallback

NextCancel ==
    \/ AskWithCallback
    \/ OpenStream
    \/ Recv
    \/ Send
    \/ Close
    \/ StreamChatReturn
    \/ StreamFailed
    \/ StreamAnswered
    \/ ExecTool
    \/ RoundEnd
    \/ Cancel

\* The goroutine of StreamChat and the range loop of streamChat go on while
\* they can, and runLoop returns when streamChat has failed.
SpecCancel ==
    /\ InitCancel /\ [][NextCancel]_vars
    /\ WF_vars(Recv) /\ WF_vars(Send) /\ WF_vars(Close)
    /\ WF_vars(StreamChatReturn) /\ WF_vars(StreamFailed)

\* A new process of the ask command over a storage that holds an earlier
\* conversation, which it continues with a further question.
InitResumed ==
    /\ NoAsk
    /\ threadNil = TRUE
    /\ thread = <<>>
    /\ stored \in EarlierConversations
    /\ budget = 0
    /\ SideInit
    /\ NoStream
    /\ callback = NoCallback

NextResumed ==
    \/ Next
    \/ Resume

SpecResumed == InitResumed /\ [][NextResumed]_vars

\* One Ask with a callback, of a provider that streams or of the
\* openai-compatible provider, which is not streamed.
InitCallback ==
    /\ NoAsk
    /\ threadNil = TRUE
    /\ thread = <<>>
    /\ stored = <<>>
    /\ SideInit
    /\ adapter \in Adapters \cup {OpenAICompatible}
    /\ backend \in IF adapter = OpenAICompatible THEN {NoBackend}
                   ELSE NextStreams(adapter, MaxVariety)
    /\ budget = IF adapter = OpenAICompatible THEN MaxVariety - 1
                ELSE MaxVariety - StreamCost(backend)
    /\ producer = Producer("idle", <<>>, <<>>)
    /\ events = <<>>
    /\ consumer = NoConsumer
    /\ callback = GivenCallback

NextCallback ==
    \/ AskWithCallback
    \/ OpenStream
    \/ Recv
    \/ Send
    \/ Close
    \/ StreamChatReturn
    \/ StreamFailed
    \/ StreamAnswered
    \/ ChatAnswered
    \/ ChatFailed
    \/ ExecTool
    \/ RoundEnd

SpecCallback == InitCallback /\ [][NextCallback]_vars

TypeOK ==
    /\ pc \in {"idle", "chat", "tools", "endround", "done"}
    /\ i \in 0..(maxIterations + 1)
    /\ budget \in 0..MaxVariety

(***************************************************************************)
(* The conversation as the claims speak of it: rounds, invocations and     *)
(* useful results are read off the message history, not off loopState.     *)
(***************************************************************************)
\* Index of the question of the current Ask (0 before the first Ask).
RECURSIVE LastUserIdx(_, _)
LastUserIdx(msgs, k) ==
    IF k = 0 THEN 0
    ELSE IF msgs[k].role = "user" THEN k
    ELSE LastUserIdx(msgs, k - 1)

AskStart == LastUserIdx(thread, Len(thread))

\* Indices of the assistant and of the tool messages of the current Ask.
AssistantIdx == { k \in (AskStart + 1)..Len(thread) : thread[k].role = "assistant" }
ToolIdx == { k \in (AskStart + 1)..Len(thread) : thread[k].role = "tool" }

\* Index of the assistant message of round n of the current Ask.
RoundIdx(n) ==
    CHOOSE k \in AssistantIdx : Cardinality({ j \in AssistantIdx : j <= k }) = n

\* A result text as the claims classify it.
HasMarker(lower) ==
    \/ Contains(lower, "no files found")
    \/ Contains(lower, "no matches")
    \/ Contains(lower, "not found")

Classify(t) == Len(t) < 30 \/ HasMarker(ToLower(t))

\* The classification of the result texts the tools of this model give,
\* worked out once.
KnownTexts ==
    { executeTool(c) :
        c \in OtherCalls \cup {SecondOfDigest} \cup {PlainCall(r) : r \in 1..10} }

KnownNonUseful == { t \in KnownTexts : Classify(t) }

NonUsefulText(t) == IF t \in KnownTexts THEN t \in KnownNonUseful ELSE Classify(t)

\* Number of rounds without any useful result at the end of msgs[1..k],
\* counted backwards to the last round that had one.
RECURSIVE EmptyRun(_, _, _)
EmptyRun(msgs, k, useful) ==
    IF k = 0 \/ msgs[k].role = "user" THEN 0
    ELSE IF msgs[k].role = "tool"
         THEN EmptyRun(msgs, k - 1, useful \/ ~NonUsefulText(msgs[k].content))
    ELSE IF useful THEN 0
    ELSE 1 + EmptyRun(msgs, k - 1, FALSE)

TrailingEmptyRounds == EmptyRun(thread, Len(thread), FALSE)

Invocations == Cardinality(ToolIdx)

Requests == Len(reqHints)

AssistantContents == { thread[k].content : k \in { j \in 1..Len(thread) :
                           thread[j].role = "assistant" /\ thread[j].content # "" } }

LastContentIdx ==
    CHOOSE k \in 1..Len(thread) :
        /\ thread[k].role = "assistant" /\ thread[k].content # ""
        /\ \A j \in (k + 1)..Len(thread) :
              ~(thread[j].role = "assistant" /\ thread[j].content # "")

\* The Ask is over after its tenth round ended with tool calls and neither
\* stop rule applied.
RanOutOfRounds ==
    /\ pc = "done"
    /\ Requests = 10
    /\ Cardinality(AssistantIdx) = 10
    /\ thread[Len(thread)].role = "tool"
    /\ TrailingEmptyRounds < 2

(***************************************************************************)
(* C1: one Ask sends at most 10 requests to the model, whatever the        *)
(* responses and the tool results are.                                     *)
(***************************************************************************)
C1_AtMostTenRequests == Requests <= 10

C1_Witness == pc = "done" /\ Requests = 10

(***************************************************************************)
(* C2: when a round ends with three consecutive rounds without a useful    *)
(* result, the Ask returns a forced-completion answer, not an error, at    *)
(* the end of that round, also before the tenth round, and no further      *)
(* request is sent.                                                        *)
(***************************************************************************)
C2_ForcedAfterThreeEmptyRounds ==
    [][ /\ (pc = "endround" /\ TrailingEmptyRounds >= 3)
            => /\ pc' = "done"
               /\ ret'.kind = "response"
               /\ ret'.content = forceCompletion(thread)
               /\ Len(reqHints') = Requests
        /\ (pc = "done" /\ TrailingEmptyRounds >= 3) => Len(reqHints') <= Requests
      ]_vars

C2_Witness ==
    /\ pc = "done" /\ ret.kind = "response"
    /\ TrailingEmptyRounds = 3
    /\ Requests = 3

(***************************************************************************)
(* C3: at the end of a round, 8 or more invocations together with two or   *)
(* more consecutive empty rounds stop the Ask with a forced completion; if *)
(* neither that nor three empty rounds hold and fewer than 10 rounds have  *)
(* run, another round follows.                                             *)
(***************************************************************************)
C3_ManySearchesStopOrContinue ==
    [][ pc = "endround" =>
          /\ (Invocations >= 8 /\ TrailingEmptyRounds >= 2)
                => /\ pc' = "done"
                   /\ ret'.kind = "response"
                   /\ ret'.content = forceCompletion(thread)
          /\ (/\ ~(Invocations >= 8 /\ TrailingEmptyRounds >= 2)
              /\ TrailingEmptyRounds < 3
              /\ Requests < 10)
                => /\ pc' = "chat"
                   /\ ret' = ret
      ]_vars

C3_Witness ==
    /\ pc = "done" /\ ret.kind = "response"
    /\ TrailingEmptyRounds = 2
    /\ Invocations >= 8
    /\ thread[Len(thread)].role = "tool"

(***************************************************************************)
(* C4: after ten rounds that all ended with tool calls and no early stop,  *)
(* the Ask returns the last non-empty assistant content followed by the    *)
(* incompleteness note if some assistant message has content, and the      *)
(* error "max iterations reached" only if none has.                        *)
(***************************************************************************)
C4_ExhaustionReturn ==
    RanOutOfRounds =>
        IF AssistantContents # {}
        THEN /\ ret.kind = "response"
             /\ ret.content = thread[LastContentIdx].content
                    \o "\n\n[Note: Response may be incomplete due to iteration limit]"
        ELSE /\ ret.kind = "error"
             /\ ret.err = "max iterations reached"

C4_Witness ==
    /\ RanOutOfRounds
    /\ Cardinality(AssistantContents) = 2
    /\ ret.kind = "response"

(***************************************************************************)
(* Rounds of the current Ask, read off the history.                        *)
(***************************************************************************)
Rounds == Cardinality(AssistantIdx)

\* Length of the history when request r was sent.
PrefixLen(r) == IF r <= Rounds THEN RoundIdx(r) - 1 ELSE Len(thread)

\* Consecutive rounds without a useful result at the end of round n.
EmptyAtEndOfRound(n) == EmptyRun(thread, PrefixLen(n + 1), FALSE)

\* All tool calls the model asked for in this Ask, in order.
RECURSIVE CallsFrom(_)
CallsFrom(k) ==
    IF k > Len(thread) THEN <<>> ELSE thread[k].toolCalls \o CallsFrom(k + 1)

AskCalls == CallsFrom(AskStart + 1)

SamePair(a, b) == a.name = b.name /\ a.args = b.args

\* The two calls have the same digest of name and raw arguments.
SameDigest(a, b) == md5Hex8[a.name \o a.args] = md5Hex8[b.name \o b.args]

\* Position in AskCalls of call j of round n.
CallPos(n, j) == Len(AskCalls) - Len(CallsFrom(RoundIdx(n))) + j

\* Call j of round n has the name and arguments of an earlier call.
IsRepeat(n, j) ==
    \E k \in 1..(CallPos(n, j) - 1) : SamePair(AskCalls[k], AskCalls[CallPos(n, j)])

RepeatedInRound(n) ==
    \E j \in 1..Len(thread[RoundIdx(n)].toolCalls) : IsRepeat(n, j)

\* The digests of a sequence of calls.
DigestsOf(calls) ==
    [k \in 1..Len(calls) |-> md5Hex8[calls[k].name \o calls[k].args]]

\* Number of the first n calls that are the pair, or have the digest, of
\* call k.
PairCount(calls, n, k) == Cardinality({ j \in 1..n : SamePair(calls[j], calls[k]) })
DigestCount(digests, n, k) == Cardinality({ j \in 1..n : digests[j] = digests[k] })

\* Call k is the pair, or has the digest, of an earlier call.
PairRepeats(calls, k) == \E j \in 1..(k - 1) : SamePair(calls[j], calls[k])
DigestRepeats(digests, k) == \E j \in 1..(k - 1) : digests[j] = digests[k]

\* Tool messages of the last round in the history.
LastRoundTools ==
    { k \in ToolIdx : \A a \in AssistantIdx : a < k }

(***************************************************************************)
(* C5: the corrective hint is in the system instructions of round r if and *)
(* only if an earlier round of the same Ask ended with two or more         *)
(* consecutive empty rounds or contained a repeated search, that is a call *)
(* whose digest of name and arguments was met before in this Ask: never in *)
(* the first round, not in the round that triggers it, and in every round  *)
(* after that.                                                             *)
(***************************************************************************)
\* Indices of the assistant messages of the current Ask, ascending.
RECURSIVE AssistantSeq(_)
AssistantSeq(k) ==
    IF k > Len(thread) THEN <<>>
    ELSE (IF thread[k].role = "assistant" THEN <<k>> ELSE <<>>) \o AssistantSeq(k + 1)

\* The tool messages of round n, idx being AssistantSeq.
ToolsOfRound(idx, n) ==
    (idx[n] + 1)..(IF n < Len(idx) THEN idx[n + 1] - 1 ELSE Len(thread))

\* Round n asks for a call whose digest was met before, in an earlier round
\* or earlier in round n.
RepeatsEarlier(idx, n) ==
    \E j \in 1..Len(thread[idx[n]].toolCalls) :
        \E m \in 1..n :
            \E l \in 1..Len(thread[idx[m]].toolCalls) :
                /\ m < n \/ l < j
                /\ SameDigest(thread[idx[m]].toolCalls[l], thread[idx[n]].toolCalls[j])

\* One entry per round: had it a useful result, did it repeat a call.
RoundSummaries(idx) ==
    [n \in 1..Len(idx) |->
        [useful |-> \E k \in ToolsOfRound(idx, n) : ~NonUsefulText(thread[k].content),
         repeated |-> RepeatsEarlier(idx, n)]]

\* Round n ends with two or more consecutive empty rounds, or repeats a call.
Triggers(rs, n) ==
    \/ rs[n].repeated
    \/ (n >= 2 /\ ~rs[n].useful /\ ~rs[n - 1].useful)

C6_PairCountAndFlag ==
    pc \in {"tools", "endround"} =>
        \A calls \in {AskCalls} : \A digests \in {DigestsOf(calls)} :
        \A n \in {Invocations} :
            /\ \A k \in 1..n :
                  PairCount(calls, n, k) = 2 => Count(searchHistory, digests[k]) = 2
            /\ (\E k \in (n - tcIdx + 1)..n : PairRepeats(calls, k)) => hasRepeatedSearch
            /\ (\A k \in (n - tcIdx + 1)..n : ~PairRepeats(calls, k)) => ~hasRepeatedSearch

(***************************************************************************)
(* C6, amended: the repetition counter is kept per digest (the first 8 hex *)
(* digits of the MD5 of the name followed by the raw arguments).  The      *)
(* counter of a call's digest is the number of invocations in this Ask     *)
(* with that digest, so the second invocation of a pair brings it to 2     *)
(* when no other pair of the same digest was invoked and to more when one  *)
(* was; the round of a second invocation of a pair is flagged; and a round *)
(* is flagged exactly when one of its executed calls has the digest of an  *)
(* earlier call of the same or of an earlier round.                        *)
(***************************************************************************)
C6_RepetitionCountAndFlag ==
    pc \in {"tools", "endround"} =>
        \A calls \in {AskCalls} : \A digests \in {DigestsOf(calls)} :
        \A n \in {Invocations} :
            /\ \A k \in 1..n :
                  /\ Count(searchHistory, digests[k]) = DigestCount(digests, n, k)
                  /\ (PairCount(calls, n, k) = 2 /\ DigestCount(digests, n, k) = 2)
                        => Count(searchHistory, digests[k]) = 2
            /\ (\E k \in (n - tcIdx + 1)..n : PairRepeats(calls, k)) => hasRepeatedSearch
            /\ hasRepeatedSearch <=> \E k \in (n - tcIdx + 1)..n : DigestRepeats(digests, k)

C6_Witness ==
    /\ pc = "endround"
    /\ Requests = 2
    /\ Len(respToolCalls) = 1
    /\ IsRepeat(2, 1)
    /\ Count(searchHistory, md5Hex8[respToolCalls[1].name \o respToolCalls[1].args]) = 2
    /\ hasRepeatedSearch

C9_ToolFailureIsContent ==
    [][ /\ pc = "tools" =>
              LET tc == respToolCalls[tcIdx + 1]
                  r == RegistryExecute(tc.name, tc.args)
                  m == thread'[Len(thread')]
              IN /\ Len(thread') = Len(thread) + 1
                 /\ m.role = "tool" /\ m.toolCallID = tc.id
                 /\ r.err # "" => m.content = "Error: " \o r.err
                 /\ ret' = ret
                 /\ pc' = IF tcIdx + 1 < Len(respToolCalls) THEN "tools" ELSE "endround"
        /\ pc = "endround" =>
              Cardinality(LastRoundTools) = Len(thread[RoundIdx(Rounds)].toolCalls)
        /\ pc = "chat" =>
              /\ Len(reqMessages') = Len(thread)
              /\ \A k \in 1..Len(thread) :
                    thread[k].role = "tool" =>
                        /\ reqMessages'[k].role = "tool"
                        /\ reqMessages'[k].content = thread[k].content
                        /\ reqMessages'[k].toolCallID = thread[k].toolCallID
      ]_vars

C9_Witness ==
    /\ Len(thread) >= 4
    /\ thread[3].role = "tool"
    /\ thread[3].content = "Error: cannot read binary file: /w/a.png"
    /\ thread[4].role = "tool"
    /\ Len(reqMessages) >= 4
    /\ reqMessages[3].content = "Error: cannot read binary file: /w/a.png"

(***************************************************************************)
(* C10: a call of a tool that is not registered gets a result that lists   *)
(* the four valid names grep, glob, read and list; it counts toward the    *)
(* total of invocations and toward its repetition counter, and it does not *)
(* end the Ask with an error: the next round follows unless a stop rule    *)
(* or the round limit applies.                                             *)
(***************************************************************************)
UnknownTool(tc) == tc.name \notin {"grep", "glob", "read", "list"}

C10_UnknownToolIsContent ==
    [][ /\ (pc = "tools" /\ UnknownTool(respToolCalls[tcIdx + 1])) =>
              LET tc == respToolCalls[tcIdx + 1]
                  h == hashToolCall(tc.name, tc.args)
                  m == thread'[Len(thread')]
              IN /\ m.role = "tool" /\ m.toolCallID = tc.id
                 /\ \A n \in {"grep", "glob", "read", "list"} : Contains(m.content, n)
                 /\ totalSearches' = totalSearches + 1
                 /\ Count(searchHistory', h) = Count(searchHistory, h) + 1
                 /\ pc' \in {"tools", "endround"}
                 /\ ret' = ret
        /\ (pc = "endround" /\ \E j \in 1..Len(respToolCalls) : UnknownTool(respToolCalls[j])) =>
              IF TrailingEmptyRounds < 2 /\ Requests < 10
              THEN pc' = "chat" /\ ret' = ret
              ELSE ret'.kind = "error" => (Requests = 10 /\ AssistantContents = {})
      ]_vars

C10_Witness ==
    /\ Requests = 2
    /\ Len(thread) >= 3
    /\ thread[3].role = "tool"
    /\ thread[3].content
         = "Error: tool \"search\" not found. Available tools: grep, glob, read, list"
    /\ totalSearches >= 1

(***************************************************************************)
(* Saving, read off the log of SaveThread calls.                           *)
(***************************************************************************)
\* The last SaveThread call of this Ask was given the whole conversation.
LastSaveCovers ==
    /\ Len(saveLog) >= 1
    /\ saveLog[Len(saveLog)].len = Len(thread)

\* The Ask is over and neither the backend failed nor did the rounds run out
\* without any assistant content.
Completed ==
    /\ pc = "done"
    /\ Requests = Rounds
    /\ ~(RanOutOfRounds /\ AssistantContents = {})

(***************************************************************************)
(* C11: when the backend call of a round fails, the conversation as of the *)
(* last appended message (the question and the messages of the rounds      *)
(* before) has been passed to SaveThread when the Ask returns.             *)
(***************************************************************************)
C11_SavedOnBackendError ==
    (pc = "done" /\ Requests > Rounds) => LastSaveCovers

(***************************************************************************)
(* C12: an Ask that ends with a natural answer, a forced completion or     *)
(* exhaustion with partial content has passed the whole conversation to    *)
(* SaveThread before it returns, the record holds it when the save         *)
(* succeeded, and the Ask returns its answer, not an error, also when the  *)
(* save failed.                                                            *)
(***************************************************************************)
C12_SavedAtCompletion ==
    Completed =>
        /\ LastSaveCovers
        /\ saveLog[Len(saveLog)].ok => stored = thread
        /\ ret.kind = "response"
        /\ ret.content # ""

C12_Witness ==
    /\ Completed
    /\ Rounds = 2
    /\ Len(saveLog) = 1
    /\ ~saveLog[1].ok
    /\ stored # thread
    /\ ret.kind = "response"

(***************************************************************************)
(* C13: at every round boundary of an active Ask (a round is complete: its *)
(* assistant message and all its tool messages are appended, the next      *)
(* request is not yet sent) the conversation so far has been passed to     *)
(* SaveThread.                                                             *)
(***************************************************************************)
C13_SavedAtRoundBoundaries ==
    (pc = "chat" /\ Rounds >= 1) => LastSaveCovers

(***************************************************************************)
(* C14: at every round boundary, each assistant message with k tool calls  *)
(* is followed immediately by exactly k tool messages whose ToolCallID is, *)
(* in order, the id of the assistant message's calls, and every tool       *)
(* message belongs to such a block of the nearest assistant message before *)
(* it.                                                                     *)
(***************************************************************************)
\* No round is under way.
AtRoundBoundary == pc \in {"idle", "chat", "done"}

\* The k messages after assistant message a answer its k calls, in order,
\* and the message after them is not a tool message.
AnsweredInOrder(a) ==
    \A k \in {Len(thread[a].toolCalls)} :
        /\ a + k <= Len(thread)
        /\ \A j \in 1..k :
              /\ thread[a + j].role = "tool"
              /\ thread[a + j].toolCallID = thread[a].toolCalls[j].id
        /\ a + k + 1 <= Len(thread) => thread[a + k + 1].role # "tool"

\* Tool message t lies within the calls of the nearest assistant message
\* before it.
HasItsCall(t) ==
    \E a \in 1..(t - 1) :
        /\ thread[a].role = "assistant"
        /\ \A m \in (a + 1)..(t - 1) : thread[m].role = "tool"
        /\ t - a <= Len(thread[a].toolCalls)
        /\ thread[t].toolCallID = thread[a].toolCalls[t - a].id

\* Every assistant message is answered and every tool message has its call.
CallsAndResultsPaired ==
    \A n \in 1..Len(thread) :
        /\ thread[n].role = "assistant" => AnsweredInOrder(n)
        /\ thread[n].role = "tool" => HasItsCall(n)

\* Checked in the state every step leads to; the history is empty at first.
C14_ToolMessagesFollowTheirCalls ==
    [][AtRoundBoundary' => CallsAndResultsPaired']_vars

C14_Witness ==
    /\ pc = "chat"
    /\ Len(thread) = 7
    /\ Len(thread[2].toolCalls) = 2
    /\ Len(thread[5].toolCalls) = 2
    /\ thread[7].toolCallID = thread[5].toolCalls[2].id
    /\ thread[7].toolCallID # thread[6].toolCallID

(***************************************************************************)
(* Forced completion, read off the history.                                *)
(***************************************************************************)
\* The Ask ended at the end of a round because a stop rule applied.
EndedForced ==
    /\ pc = "done"
    /\ Requests = Rounds
    /\ thread[Len(thread)].role = "tool"
    /\ \/ TrailingEmptyRounds >= 3
       \/ (Invocations >= 8 /\ TrailingEmptyRounds >= 2)

\* The indices among msgs[k..] of the tool messages in the set, ascending.
RECURSIVE Ascending(_, _)
Ascending(set, k) ==
    IF k > Len(thread) THEN <<>>
    ELSE (IF k \in set THEN <<k>> ELSE <<>>) \o Ascending(set, k + 1)

\* An output as it is quoted: cut after 500 characters.
Quoted(t) == IF Len(t) > 500 THEN SubSeq(t, 1, 500) \o "..." ELSE t

\* The quoted outputs of the first up to three of the tool messages idx.
Evidence(idx) ==
    (IF Len(idx) >= 1 THEN Quoted(thread[idx[1]].content) \o "\n\n" ELSE "")
    \o (IF Len(idx) >= 2 THEN Quoted(thread[idx[2]].content) \o "\n\n" ELSE "")
    \o (IF Len(idx) >= 3 THEN Quoted(thread[idx[3]].content) \o "\n\n" ELSE "")

\* The answer of a forced completion when the tool messages in the set are
\* the ones that count as evidence.
ForcedAnswer(set) ==
    IF AssistantContents # {} THEN thread[LastContentIdx].content
    ELSE IF set = {} THEN NothingFound
    ELSE RawResultsHead \o Evidence(Ascending(set, 1)) \o RawResultsNote

\* Tool messages with a non-empty output that is classified useful.
UsefulOutputs ==
    { k \in 1..Len(thread) :
        /\ thread[k].role = "tool"
        /\ thread[k].content # ""
        /\ ~NonUsefulText(thread[k].content) }

\* Those of them whose output is longer than 100 characters.
LongUsefulOutputs == { k \in UsefulOutputs : Len(thread[k].content) > 100 }

(***************************************************************************)
(* C15, as stated: a forced completion returns the most recent non-empty   *)
(* assistant message if there is one; otherwise the note followed by the   *)
(* first up to three tool outputs that are non-empty and classified        *)
(* useful, each cut to 500 characters; and the fixed nothing-found message *)
(* only if there is no such output.                                        *)
(***************************************************************************)
C15_EveryUsefulOutputIsEvidence ==
    EndedForced =>
        /\ ret.kind = "response"
        /\ ret.content = ForcedAnswer(UsefulOutputs)

(***************************************************************************)
(* What forceCompletion computes: a tool output counts as evidence only if *)
(* it is longer than 100 characters and classified useful, so a useful     *)
(* output of 30 to 100 characters is passed over.                          *)
(***************************************************************************)
LongUsefulOutputsAreEvidence ==
    EndedForced =>
        /\ ret.kind = "response"
        /\ ret.content = ForcedAnswer(LongUsefulOutputs)

(***************************************************************************)
(* Natural answers.                                                        *)
(***************************************************************************)
\* The history ends with an assistant message that asks for no tool.
EndsWithPlainAnswer ==
    /\ Len(thread) > 0
    /\ thread[Len(thread)].role = "assistant"
    /\ thread[Len(thread)].toolCalls = <<>>

\* The answer a round without tool calls gives, read off the history.
PlainAnswer ==
    IF thread[Len(thread)].content # "" THEN thread[Len(thread)].content
    ELSE IF AssistantContents # {} THEN thread[LastContentIdx].content
    ELSE FallbackAnswer

(***************************************************************************)
(* C16: a round in which the model asks for no tool ends the Ask.  The     *)
(* answer is the round's assistant content if it is not empty, otherwise   *)
(* the last non-empty assistant message of the history, otherwise the      *)
(* fixed apology; and within this Ask no tool is executed and no request   *)
(* is sent after such a round.                                             *)
(***************************************************************************)
C16_NoToolCallsEndTheAsk ==
    [][/\ (EndsWithPlainAnswer' /\ thread' # thread) =>
             /\ pc' = "done"
             /\ ret'.kind = "response"
             /\ ret'.content = PlainAnswer'
             /\ Requests' = Rounds'
       /\ (EndsWithPlainAnswer /\ asks' = asks) =>
             /\ UNCHANGED <<thread, reqHints, reqMessages, totalSearches>>
             /\ pc' = "done"]_vars

C16_Witness ==
    /\ pc = "done"
    /\ EndsWithPlainAnswer
    /\ thread[Len(thread)].content = ""
    /\ Rounds = 3
    /\ thread[RoundIdx(1)].content # ""
    /\ thread[RoundIdx(2)].content = ""
    /\ ret.content = thread[RoundIdx(1)].content
    /\ Invocations = 2

(***************************************************************************)
(* The Response of an Ask.                                                 *)
(***************************************************************************)
\* One field of the usage the backend reported in the rounds from n on, idx
\* being AssistantSeq, summed.
RECURSIVE UsageSum(_, _, _)
UsageSum(field, idx, n) ==
    IF n > Len(idx) THEN 0
    ELSE UsageOf(n, thread[idx[n]].content, thread[idx[n]].toolCalls)[field]
         + UsageSum(field, idx, n + 1)

UsageFrom(n) ==
    LET idx == AssistantSeq(AskStart + 1)
    IN [input |-> UsageSum("input", idx, n),
        output |-> UsageSum("output", idx, n),
        total |-> UsageSum("total", idx, n)]

Answered == pc = "done" /\ ret.kind = "response"

ResponseRecordsTheAsk ==
    /\ ret.toolCalls = AskCalls
    /\ ret.usage = UsageFrom(1)

OneCallThenAnswer ==
    /\ Rounds = 2
    /\ Len(thread[RoundIdx(1)].toolCalls) = 1
    /\ thread[RoundIdx(2)].toolCalls = <<>>
    /\ thread[RoundIdx(2)].content # ""

(***************************************************************************)
(* C17: the Response of an Ask records exactly the tool calls the model    *)
(* asked for during this Ask, over all rounds and in the order asked, one  *)
(* entry per call, and its usage is the sum of the usage of all rounds.    *)
(* With one call in round 1 and a plain answer in round 2 the Response     *)
(* holds exactly one call and its content is the content of round 2.       *)
(***************************************************************************)
C17_ResponseRecordsCallsAndUsage ==
    Answered =>
        /\ ResponseRecordsTheAsk
        /\ OneCallThenAnswer =>
              /\ Len(ret.toolCalls) = 1
              /\ ret.content = thread[Len(thread)].content

C17_Witness ==
    /\ Answered
    /\ OneCallThenAnswer
    /\ ret.toolCalls = thread[RoundIdx(1)].toolCalls
    /\ ret.content = AssistantText(2)
    /\ thread[RoundIdx(1)].content = ""
    /\ ret.usage = [input |-> 3, output |-> 2, total |-> 5]
    /\ ~NonUsefulText(thread[Len(thread) - 1].content)

AnsweredAfterManyRounds ==
    /\ Answered
    /\ Rounds >= 3
    /\ Len(ret.toolCalls) >= 3
    /\ Len(thread[RoundIdx(1)].toolCalls) = 2
    /\ ret.usage.input = (Rounds * (Rounds + 1)) \div 2

(***************************************************************************)
(* Several Asks on one conversation.                                       *)
(***************************************************************************)
\* The calls the model asked for before the current Ask.
RECURSIVE CallsBefore(_)
CallsBefore(k) ==
    IF k = 0 THEN <<>> ELSE CallsBefore(k - 1) \o thread[k].toolCalls

EarlierCalls == CallsBefore(AskStart - 1)

(***************************************************************************)
(* C18: the loop state is per Ask.  The repetition counts, the             *)
(* consecutive-empty counter, the invocation counter and the hint flag are *)
(* zero and false when an Ask starts; the first request of every Ask       *)
(* carries no hint; and in every round the counters and the repetition     *)
(* flag are those of the calls of the current Ask alone, so a call that    *)
(* only an earlier Ask made is not a repetition.                           *)
(***************************************************************************)
C18_LoopStateIsPerAsk ==
    [][ /\ asks' # asks =>
              /\ searchHistory' = <<>>
              /\ emptyResultCount' = 0
              /\ totalSearches' = 0
              /\ hintInjected' = FALSE
        /\ (Requests = 0 /\ Requests' = 1) => ~reqHints'[1]
        /\ pc = "endround" =>
              /\ totalSearches = Invocations
              /\ hasRepeatedSearch <=>
                    RepeatsEarlier(AssistantSeq(AskStart + 1), Rounds)
              /\ emptyResultCount' = TrailingEmptyRounds
              /\ hintInjected' <=>
                    \A idx \in {AssistantSeq(AskStart + 1)} :
                        \A rs \in {RoundSummaries(idx)} :
                            \E n \in 1..Rounds : Triggers(rs, n)
      ]_vars

\* The first Ask repeated a call in its first round and went on to a second
\* round; the second Ask makes that call again, is not flagged for it, and
\* its first two requests carry no hint.
C18_Witness ==
    /\ asks = 2
    /\ AskStart > 5
    /\ Len(thread[2].toolCalls) = 2
    /\ SamePair(thread[2].toolCalls[1], thread[2].toolCalls[2])
    /\ thread[5].role = "assistant"
    /\ Requests = 2
    /\ reqHints = <<FALSE, FALSE>>
    /\ Len(AskCalls) = 1
    /\ \E k \in 1..Len(EarlierCalls) : SamePair(EarlierCalls[k], AskCalls[1])
    /\ Count(searchHistory, hashToolCall(AskCalls[1].name, AskCalls[1].args)) = 1
    /\ totalSearches = 1
    /\ ~hintInjected

(***************************************************************************)
(* Streams.                                                                *)
(***************************************************************************)
Terminal(e) == e.type \in {"done", "error"}

TerminalEvents == { k \in 1..Len(events) : Terminal(events[k]) }

(***************************************************************************)
(* C19: for every adapter the events of a stream contain exactly one       *)
(* terminal event, Done or Error, and it is the last event before the      *)
(* channel is closed: no Text or ToolCall event and no second Done or      *)
(* Error comes after it.                                                   *)
(***************************************************************************)
C19_OneTerminalEventLast ==
    /\ \A k \in TerminalEvents : k = Len(events)
    /\ producer.pc = "closed" => Cardinality(TerminalEvents) = 1

(***************************************************************************)
(* C20: when the channel is closed and neither a Done nor an Error event   *)
(* was received, streamChat fails instead of returning the partial text    *)
(* and tool calls as a response.                                           *)
(***************************************************************************)
C20_CloseWithoutDoneIsAnError ==
    (producer.pc = "closed" /\ ~consumer.running /\ TerminalEvents = {}) =>
        consumer.result = "error"

(***************************************************************************)
(* C21: the tool-call events of a streamed response reach the loop in the  *)
(* backend's call order, whatever the adapter: the k-th tool call          *)
(* streamChat has collected is the k-th call of the backend's stream, so   *)
(* two runs over the same stream collect the same sequence.                *)
(***************************************************************************)
C21_ToolCallsInBackendOrder ==
    \A k \in 1..Len(consumer.toolCalls) :
        /\ k <= Len(backend.calls)
        /\ consumer.toolCalls[k].name = backend.calls[k].name
        /\ consumer.toolCalls[k].args = backend.calls[k].args

(***************************************************************************)
(* Truncation.                                                             *)
(***************************************************************************)
\* The registry has run a tool with a long output and truncation was on.
Truncating == executed.name # "" /\ tools.outputDir # ""

WithinCeilings(output) ==
    LineCount(output) <= MaxOutputLines /\ ByteLen(output) <= MaxOutputBytes

HasNote(content, t) == \E k \in 1..Len(content) : content[k].text = t

Notes(content) == { k \in 1..Len(content) : content[k].text # "" }

\* The part of a preview before its first annotation and the empty line
\* in front of it.
Preview(content) ==
    IF Notes(content) = {} THEN content
    ELSE SubSeq(content, 1,
                (CHOOSE k \in Notes(content) : \A m \in Notes(content) : k <= m) - 2)

(***************************************************************************)
(* C23: an output within both ceilings (at most 500 lines and at most      *)
(* 50 KB) is returned unchanged, without annotation; an output of more    *)
(* than 500 lines yields a preview of at most its first 500 lines plus an  *)
(* annotation that states the total number of lines, whatever the length   *)
(* of the lines.                                                           *)
(***************************************************************************)
C23_PreviewAndLineCount ==
    Truncating =>
        /\ WithinCeilings(executed.output) =>
              /\ executed.result.output = executed.output
              /\ ~executed.result.truncated
        /\ LineCount(executed.output) > MaxOutputLines =>
              /\ LineCount(Preview(executed.result.output)) <= MaxOutputLines
              /\ Preview(executed.result.output)
                   = FirstLines(executed.output,
                                LineCount(Preview(executed.result.output)))
              /\ HasNote(executed.result.output,
                         LinesNote(LineCount(executed.output)))

\* What the code does keep: the line count is stated whenever the first
\* 500 lines and the annotation fit into 50 KB.
FirstLinesFit(output) ==
    ByteLen(AppendNote(FirstLines(output, MaxOutputLines),
                       LinesNote(LineCount(output)))) <= MaxOutputBytes

LineCountStatedWhenItFits ==
    (Truncating /\ LineCount(executed.output) > MaxOutputLines
                /\ FirstLinesFit(executed.output)) =>
        /\ Preview(executed.result.output)
             = FirstLines(executed.output, MaxOutputLines)
        /\ HasNote(executed.result.output, LinesNote(LineCount(executed.output)))

(***************************************************************************)
(* C24: every result of Registry.Execute has had the truncation policy     *)
(* applied: an output of more than 500 lines or more than 50 KB comes back *)
(* cut to at most 500 lines and at most 50 KB (annotations aside),         *)
(* whether or not an output directory is configured.                       *)
(***************************************************************************)
CutToCeilings ==
    /\ executed.result.truncated
    /\ LineCount(Preview(executed.result.output)) <= MaxOutputLines
    /\ ByteLen(Preview(executed.result.output)) <= MaxOutputBytes

C24_EveryResultIsTruncated ==
    (executed.name # "" /\ ~WithinCeilings(executed.output)) => CutToCeilings

\* With an output directory the policy is applied.
TruncatedWithOutputDir ==
    (Truncating /\ ~WithinCeilings(executed.output)) => CutToCeilings

(***************************************************************************)
(* C25: when the directory for full outputs cannot be created or the file  *)
(* cannot be written, truncation still succeeds with the in-memory         *)
(* preview: the tool call returns its output cut to the ceilings and       *)
(* marked truncated, with no output path and no mention of a saved file.   *)
(***************************************************************************)
StorageFailed ==
    /\ Truncating
    /\ ~WithinCeilings(executed.output)
    /\ executed.fs \in {"mkdir fails", "write fails"}

MentionsSavedFile(content) ==
    \E k \in 1..Len(content) : HasPrefix(content[k].text, "[Full output saved to")

C25_StorageFailureKeepsThePreview ==
    StorageFailed =>
        /\ CutToCeilings
        /\ executed.result.outputPath = ""
        /\ ~MentionsSavedFile(executed.result.output)

C25_Witness ==
    /\ StorageFailed
    /\ executed.fs = "write fails"
    /\ LineCount(executed.output) = 600
    /\ executed.result.truncated
    /\ executed.result.outputPath = ""
    /\ HasNote(executed.result.output, LinesNote(600))

(***************************************************************************)
(* C26: every full-output file written during an Ask lies in the           *)
(* subdirectory of the output directory named after the id of the          *)
(* conversation the Ask runs on, be the conversation new, resumed with     *)
(* ContinueThread or passed in when the agent was made.                    *)
(***************************************************************************)
C26_FilesUnderTheConversation ==
    \A f \in files :
        /\ f.thread # ""
        /\ f.dir = tools.outputDir \o "/" \o f.thread

\* For a conversation the Ask itself created the files are in its directory.
FilesOfNewConversation ==
    \A f \in files :
        f.thread = generateID => f.dir = tools.outputDir \o "/" \o f.thread

(***************************************************************************)
(* Searches.                                                               *)
(***************************************************************************)
Searched == searched.op # "none"

\* The files a path of the search takes into account, and what they hold
\* for the search made.
Considered ==
    IF searched.via = "rg" THEN { f \in tree : ~Ignored(f) }
    ELSE { f \in tree : ~Ignored(f) /\ ~InHiddenDir(f) /\ ~HiddenFile(f) }

Eligible ==
    IF searched.op = "grep"
    THEN UNION { { Match(f, f.lines[k]) : k \in 1..Len(f.lines) } : f \in Considered }
    ELSE { FileInfo(f) : f \in { g \in Considered : MatchesPattern(g) } }

Returned == { searched.result[k] : k \in 1..Len(searched.result) }

TheCap ==
    IF searched.cap # 0 THEN searched.cap
    ELSE IF searched.op = "grep" THEN DefaultMaxMatches ELSE DefaultMaxFiles

(***************************************************************************)
(* C27: both searches keep the newest matches under the cap, not the first *)
(* ones met: nothing left out is newer than something returned, and what   *)
(* is returned fills the cap when there are enough matches; with a.go      *)
(* (oldest), b.go and c.go (newest) and a cap of 2 the result is c.go and  *)
(* b.go, whatever the order of the traversal.                              *)
(***************************************************************************)
C27_NewestUnderTheCap ==
    Searched =>
        /\ \A r \in Returned : \A m \in Eligible \ Returned : m.mtime <= r.mtime
        /\ (tree = { WalkOrder[3], WalkOrder[4], WalkOrder[5] } /\ searched.cap = 2) =>
              { r.path : r \in Returned } = { <<"c.go">>, <<"b.go">> }

(***************************************************************************)
(* C28: every list Grep or Glob returns, by rg or in process, has at most  *)
(* cap entries and is ordered by modification time, newest first.          *)
(***************************************************************************)
C28_CappedAndNewestFirst ==
    Searched =>
        /\ Len(searched.result) <= TheCap
        /\ \A k \in 1..(Len(searched.result) - 1) :
              searched.result[k].mtime >= searched.result[k + 1].mtime

\* rg printed three matches oldest first and the cap was 2.
C28_Witness ==
    /\ searched.op = "grep"
    /\ searched.via = "rg"
    /\ searched.cap = 2
    /\ Len(searched.raw) = 3
    /\ searched.raw[1].mtime < searched.raw[2].mtime
    /\ Len(searched.result) = 2
    /\ searched.result[1] = searched.raw[2]
    /\ searched.result[2] = searched.raw[1]

(***************************************************************************)
(* C29: no result of a search lies in a hidden entry or is matched by the  *)
(* root's ignore rules: no component of a returned path starts with a dot, *)
(* whichever of the two paths of the search produced it.                   *)
(***************************************************************************)
C29_NoHiddenNoIgnored ==
    Searched =>
        \A r \in Returned :
            /\ \A k \in 1..Len(r.path) : ~HasPrefix(r.path[k], ".")
            /\ r.path[1] # "vendor"

(***************************************************************************)
(* C30: for every root and options rg and the in-process search return the *)
(* same results in the same order: what one of them returned, the other    *)
(* can return.                                                             *)
(***************************************************************************)
ByRg ==
    IF searched.op = "grep"
    THEN { RipgrepGrep(order, searched.cap) :
             order \in RgOrders({ f \in RgFiles(tree) : f.lines # <<>> }) }
    ELSE { RipgrepGlob(order, searched.cap) :
             order \in RgOrders({ f \in RgFiles(tree) : MatchesPattern(f) }) }

InProcess ==
    IF searched.op = "grep" THEN goGrep(tree, searched.cap)
    ELSE goGlob(tree, searched.cap)

C30_SameOnBothPaths ==
    Searched =>
        searched.result \in (IF searched.via = "rg" THEN InProcess ELSE ByRg)

\* Without hidden files and with room under the cap the two paths return
\* the same entries (not always in the same order).
SameEntriesWhenNothingIsCut ==
    (Searched /\ searched.cap = 0
              /\ \A f \in tree : ~InHiddenDir(f) /\ ~HiddenFile(f)) =>
        \E other \in (IF searched.via = "rg" THEN InProcess ELSE ByRg) :
            { other[k] : k \in 1..Len(other) } = Returned

(***************************************************************************)
(* Cancellation.                                                           *)
(***************************************************************************)
\* streamChat calls StreamChat: a request goes to the backend.
RequestSent == producer.pc = "idle" /\ producer'.pc # "idle"

Returned_Error == pc = "done" /\ ret.kind = "error"

(***************************************************************************)
(* C22: when the cancellation signal fires while the model call of a round *)
(* is in flight, the Ask returns, and with an error; from the cancellation *)
(* on no message is appended to the conversation (no assistant message and *)
(* no tool message of that round), the stored conversation is not          *)
(* changed, no tool is executed and no further request is sent.            *)
(***************************************************************************)
Cancelled == cancelled # "no"

Unwinds ==
    /\ thread' = thread
    /\ stored' = stored
    /\ tcIdx' = tcIdx /\ totalSearches' = totalSearches
    /\ ~RequestSent
    /\ pc' = "done" => ret'.kind = "error"

C22_CancelUnwindsTheAsk == [][Cancelled => Unwinds]_vars

\* When the call in flight fails on the cancellation, the Ask does unwind
\* and returns the error.
FailedCallUnwindsTheAsk ==
    /\ [][cancelled = "unwound" => Unwinds]_vars
    /\ (cancelled = "unwound") ~> Returned_Error

\* Cancelled during the second request, after text of it was received: the
\* Ask returned the error and the conversation ends with the tool message
\* of the first round.
CancelledInTheSecondRound ==
    /\ cancelled = "unwound"
    /\ Returned_Error
    /\ Len(reqHints) = 2
    /\ consumer.content # ""
    /\ consumer.result = "error"
    /\ thread[Len(thread)].role = "tool"

(***************************************************************************)
(* C37: every Ask that returns without an error returns a Response whose   *)
(* Content is not empty, whether it ended with a natural answer, a forced  *)
(* completion or the exhaustion of the rounds.                             *)
(***************************************************************************)
ReturnedResponse == pc = "done" /\ ret.kind = "response"

C37_ContentIsNeverEmpty ==
    ReturnedResponse =>
        /\ exit \in {"natural", "forced", "exhausted"}
        /\ ret.content # ""

\* A forced completion of an Ask in which the model never wrote text and no
\* tool output is long enough to be quoted.
C37_Witness ==
    /\ ReturnedResponse
    /\ exit = "forced"
    /\ \A k \in 1..Len(thread) : thread[k].role = "assistant" => thread[k].content = ""
    /\ ret.content = NothingFound

(***************************************************************************)
(* Answers of a continued conversation.                                    *)
(***************************************************************************)
\* The Ask continues a conversation that holds earlier Asks.
Continued == AskStart > 1

\* No assistant message of the current Ask has content.
CurrentAskSilent == \A k \in AssistantIdx : thread[k].content = ""

\* The assistant messages with content of the earlier Asks.
EarlierContents ==
    { k \in 1..(AskStart - 1) : thread[k].role = "assistant" /\ thread[k].content # "" }

EarlierAnswer ==
    thread[CHOOSE k \in EarlierContents : \A j \in EarlierContents : j <= k].content

\* The Ask returned through one of the answer fallbacks.
FellBack ==
    /\ pc = "done"
    /\ exit \in {"natural", "forced", "exhausted", "maxiter"}
    /\ Continued
    /\ CurrentAskSilent

\* The answer is the text; after the exhaustion of the rounds it is the
\* text followed by the incompleteness note.
AnswerIs(text) ==
    /\ ret.kind = "response"
    /\ ret.content = IF exit = "exhausted" THEN text \o IterationNote ELSE text

\* Tool outputs of the conversation a forced completion would quote.
Quotable == usefulResults(thread)

FixedOrEvidence ==
    \/ ret.kind = "error"
    \/ ret.content \in {FallbackAnswer, NothingFound}
    \/ HasPrefix(ret.content, RawResultsHead)

(***************************************************************************)
(* C38, as stated: on a continued conversation in which no assistant       *)
(* message of the current Ask has content, the answer of every fallback is *)
(* the most recent non-empty assistant message of an earlier Ask, and the  *)
(* tool evidence and the fixed messages are never reached.                 *)
(***************************************************************************)
C38_AlwaysAnEarlierAnswer ==
    FellBack =>
        /\ EarlierContents # {}
        /\ AnswerIs(EarlierAnswer)
        /\ ~FixedOrEvidence

(***************************************************************************)
(* C38, amended: the fallbacks search the whole history.  On a continued   *)
(* conversation in which no assistant message of the current Ask has       *)
(* content, the answer is the most recent non-empty assistant message of   *)
(* an earlier Ask whenever an earlier Ask left one (followed by the note   *)
(* after the exhaustion of the rounds), and then the tool evidence and the *)
(* fixed messages are not reached; when no earlier assistant message has   *)
(* content, the answer is the evidence, a fixed message or the error, as   *)
(* in a first Ask.                                                         *)
(***************************************************************************)
C38_EarlierAnswerWhenThereIsOne ==
    FellBack =>
        IF EarlierContents # {}
        THEN AnswerIs(EarlierAnswer) /\ ~FixedOrEvidence
        ELSE CASE exit = "natural" -> ret.content = FallbackAnswer
               [] exit = "forced" ->
                     IF Quotable # <<>> THEN HasPrefix(ret.content, RawResultsHead)
                                        ELSE ret.content = NothingFound
               [] OTHER -> ret.kind = "error" /\ exit = "maxiter"

\* A forced completion of a silent Ask whose tools found text worth
\* quoting: the answer is the final text of the earlier Ask.
C38_Witness ==
    /\ FellBack
    /\ exit = "forced"
    /\ Quotable # <<>>
    /\ EarlierContents # {}
    /\ ret.content = "Viper reads configuration files."

(***************************************************************************)
(* The round trip of a conversation through the storage.                   *)
(***************************************************************************)
\* The conversation was loaded and handed to ContinueThread; no Ask yet.
Resumed == pc = "idle" /\ ~threadNil /\ asks = 0

\* The first request of the Ask that continues the conversation was sent.
FirstRequestOfContinuedAsk == Continued /\ asks = 1 /\ Requests = 1

\* The request the process that wrote the conversation c would have built
\* for the same question.
RequestOfOriginal(c) == buildMessages(Append(c, UserMsg(Question)))

(***************************************************************************)
(* C32: a conversation saved, loaded and resumed with ContinueThread has   *)
(* the message history that was saved (roles, contents, tool calls and     *)
(* tool-call ids, in order), and the first request built from it has the   *)
(* messages the process that saved it would have sent for that question,   *)
(* and no hint in its system instructions.                                 *)
(***************************************************************************)
C32_RoundTripOfAConversation ==
    /\ Resumed => thread = stored
    /\ FirstRequestOfContinuedAsk =>
          /\ \E c \in EarlierConversations : reqMessages = RequestOfOriginal(c)
          /\ reqHints = <<FALSE>>

\* All of a message but the bytes of the arguments of its tool calls.
ButArguments(m) ==
    [m EXCEPT !.toolCalls = [n \in 1..Len(m.toolCalls) |->
                                [m.toolCalls[n] EXCEPT !.args = ""]]]

\* What the round trip does keep: the messages in order with their roles,
\* contents, tool-call ids and names, tool results, and the system
\* instructions of the first request.
RoundTripButArguments ==
    /\ Resumed =>
          /\ Len(thread) = Len(stored)
          /\ \A k \in 1..Len(thread) : ButArguments(thread[k]) = ButArguments(stored[k])
    /\ FirstRequestOfContinuedAsk => reqHints = <<FALSE>>

\* A resumed conversation with a tool call whose arguments are not the
\* bytes that were saved.
ArgumentsReformatted ==
    /\ Resumed
    /\ \E k \in 1..Len(thread) :
          /\ Len(thread[k].toolCalls) = 1
          /\ stored[k].toolCalls[1].args = "{\"pattern\":\"p1\"}"
          /\ thread[k].toolCalls[1].args
                = "{\n            \"pattern\": \"p1\"\n          }"

(***************************************************************************)
(* The goroutine of StreamChat after streamChat has returned.              *)
(***************************************************************************)
\* Agent.streamChat has returned, with a response or with an error.
ConsumerReturned == ~consumer.running /\ consumer.result # "none"

\* The goroutine is at a send on the channel; with the consumer gone there
\* is no receiver any more, and the deferred close is never reached.
ProducerAtSend == producer.outbox # <<>>

(***************************************************************************)
(* C34: whenever the stream consumer of the loop has returned, after the   *)
(* channel was closed or on the first Error event, the producer goroutine  *)
(* of the adapter is not left at a send of a further event that nobody     *)
(* receives.                                                               *)
(***************************************************************************)
C34_NoProducerLeftBlocked == ConsumerReturned => ~ProducerAtSend

\* The OpenAI and Google adapters send nothing after an Error event.
NoSendAfterErrorOpenAIGoogle ==
    (adapter \in {"openai", "google"} /\ ConsumerReturned) => ~ProducerAtSend

\* The Ollama goroutine at the send of a kept tool call after its Error
\* event ended the consumer.
OllamaBlockedAfterError ==
    /\ adapter = "ollama"
    /\ ConsumerReturned
    /\ consumer.result = "error"
    /\ ProducerAtSend
    /\ Head(producer.outbox).type = "tool_call"

(***************************************************************************)
(* What the callback of an Ask is told.                                    *)
(***************************************************************************)
\* The tool_call and tool_result notifications, in order.
RECURSIVE ToolNotifications(_)
ToolNotifications(es) ==
    IF es = <<>> THEN <<>>
    ELSE (IF Head(es).type \in {"tool_call", "tool_result"}
          THEN <<[type |-> Head(es).type, id |-> Head(es).toolCall.id,
                  name |-> Head(es).toolCall.name]>>
          ELSE <<>>) \o ToolNotifications(Tail(es))

\* One tool_call followed by one tool_result for each of the calls.
RECURSIVE OnePairEach(_)
OnePairEach(calls) ==
    IF calls = <<>> THEN <<>>
    ELSE <<[type |-> "tool_call", id |-> Head(calls).id, name |-> Head(calls).name],
           [type |-> "tool_result", id |-> Head(calls).id, name |-> Head(calls).name]>>
         \o OnePairEach(Tail(calls))

ToolCallNotifications ==
    Cardinality({ k \in 1..Len(callback.events) : callback.events[k].type = "tool_call" })

AnsweredWithCallback == pc = "done" /\ ret.kind = "response" /\ callback.given

(***************************************************************************)
(* C35: when an Ask with a callback has returned its Response, streamed or *)
(* not, the tool notifications the callback received are one tool_call     *)
(* followed by one tool_result for every tool call executed, so that the   *)
(* number of tool_call notifications is the number of tool invocations in  *)
(* the Response.                                                           *)
(***************************************************************************)
C35_OneNotificationPairPerCall ==
    AnsweredWithCallback =>
        /\ ToolNotifications(callback.events) = OnePairEach(ret.toolCalls)
        /\ ToolCallNotifications = Len(ret.toolCalls)

\* Without streaming the callback is told by executeTool alone.
OnePairPerCallWithoutStreaming ==
    (AnsweredWithCallback /\ adapter = OpenAICompatible) =>
        /\ ToolNotifications(callback.events) = OnePairEach(ret.toolCalls)
        /\ ToolCallNotifications = Len(ret.toolCalls)

\* A streamed Ask that executed one tool call and told the callback twice
\* of it: when the event of the stream was forwarded and when it was
\* executed.
ToldTwiceOfOneCall ==
    /\ AnsweredWithCallback
    /\ adapter = "openai"
    /\ Len(ret.toolCalls) = 1
    /\ ToolNotifications(callback.events) =
          <<[type |-> "tool_call", id |-> "call_1", name |-> "grep"],
            [type |-> "tool_call", id |-> "call_1", name |-> "grep"],
            [type |-> "tool_result", id |-> "call_1", name |-> "grep"]>>

(***************************************************************************)
(* C36: the answer the ask command prints is the Content of the Response   *)
(* the agent returned for the question, also when that is a forced         *)
(* completion or carries the incompleteness note, and also when the model  *)
(* streamed text in rounds that ended with tool calls.                     *)
(***************************************************************************)
C36_PrintedAnswerIsTheResponse ==
    AnsweredWithCallback => finalContent(ret) = ret.content

\* When no text event reached the callback the Content is printed.
PrintedWhenNothingWasStreamed ==
    (AnsweredWithCallback /\ collected(callback.events) = "") =>
        finalContent(ret) = ret.content

\* Text was streamed in a round that ended with a tool call and again in
\* the final round: the text of both rounds is printed.
TextOfTwoRoundsPrinted ==
    /\ AnsweredWithCallback
    /\ exit = "natural"
    /\ Len(ret.toolCalls) = 1
    /\ ret.content = "Cobra "
    /\ finalContent(ret) = "Cobra Cobra "

(***************************************************************************)
(* Rounds whose tool calls all failed.                                     *)
(***************************************************************************)
\* The error of the registry for a call, "" when the call succeeds.
ErrorOf(tc) == RegistryExecute(tc.name, tc.args).err

\* The calls of the round that is ending.
EndingRoundCalls == thread[RoundIdx(Rounds)].toolCalls

AllCallsFailed ==
    \A n \in 1..Len(EndingRoundCalls) : ErrorOf(EndingRoundCalls[n]) # ""

\* An error text as the heuristic sees it, and whether it counts as useful:
\* at least 30 characters and none of the markers.
ErrorText(tc) == "Error: " \o ErrorOf(tc)

UsefulErrorText(t) ==
    /\ Len(t) >= 30
    /\ \A marker \in {"no files found", "no matches", "not found"} :
          ~Contains(ToLower(t), marker)

(***************************************************************************)
(* C40: the usefulness heuristic treats the error text of a failed tool    *)
(* execution like successful output.  A round whose tool calls all failed  *)
(* sets the consecutive-empty counter to 0 if and only if one of the error *)
(* texts, with its "Error: " prefix, has at least 30 characters and none   *)
(* of the markers "no files found", "no matches", "not found", and raises  *)
(* it by 1 otherwise; the error field of a tool message is never set.      *)
(***************************************************************************)
C40_ErrorTextsAreClassifiedToo ==
    [][ /\ (pc = "endround" /\ AllCallsFailed) =>
              emptyResultCount' =
                  IF \E n \in 1..Len(EndingRoundCalls) :
                        UsefulErrorText(ErrorText(EndingRoundCalls[n]))
                  THEN 0 ELSE emptyResultCount + 1
        /\ \A k \in 1..Len(thread') :
              thread'[k].role = "tool" =>
                  \A n \in 1..Len(thread'[k].toolResults) :
                      thread'[k].toolResults[n].error = ""
      ]_vars

\* After a round without a useful result, a round whose only call failed
\* with an error text of 40 characters has set the counter back to 0.
C40_Witness ==
    /\ pc = "chat"
    /\ Requests = 2
    /\ Len(thread) = 5
    /\ thread[3].content = "No files found"
    /\ thread[5].role = "tool"
    /\ thread[5].content = "Error: cannot read binary file: /w/a.png"
    /\ thread[5].toolResults[1].error = ""
    /\ emptyResultCount = 0

(***************************************************************************)
(* C39: after any sequence of Ask calls on one agent, calls that returned  *)
(* an error included, the conversation in memory never has two user        *)
(* messages in a row: every user message but the last is followed by an    *)
(* assistant message before the next user message.                         *)
(***************************************************************************)
C39_NoTwoUserMessagesInARow ==
    \A k \in 1..(Len(thread) - 1) :
        thread[k].role = "user" => thread[k + 1].role = "assistant"

\* After an Ask that returned a response the next question does not follow
\* a question.
NoQuestionAfterQuestionWithoutError ==
    [][(asks' = asks + 1 /\ asks > 0 /\ ret.kind = "response") =>
          /\ thread[Len(thread)].role # "user"
          /\ thread'[Len(thread')].role = "user"]_vars

\* The first Ask failed at its first request; the second question stands
\* right after the first.
QuestionAfterFailedAsk ==
    /\ asks = 2
    /\ Len(thread) >= 2
    /\ thread[1].role = "user"
    /\ thread[2].role = "user"

(***************************************************************************)
(* The rg subprocess: cancellation and the cap.                            *)
(***************************************************************************)
RgStarted == rg.op # "none"
RgReturned == rg.parent = "returned"
CallerBlocked == rg.parent \in {"scan", "wait"}

\* C31: a search delegated to rg does not block for ever when rg hangs: once
\* the ctx of the caller is cancelled or timed out and the search has not
\* returned, the search can still move on (rg is terminated and the call
\* returns a failure).
C31_CancellationEndsTheSearch ==
    (RgStarted /\ rg.ctxDone /\ ~RgReturned) => ENABLED SearchMoves

\* The state that refutes it: rg hangs, the ctx is done, the caller sits in
\* Scan or Wait and nothing can move it.
HungForEver ==
    /\ rg.child = "hung"
    /\ rg.ctxDone
    /\ CallerBlocked
    /\ ~ENABLED SearchMoves

\* While rg runs and the caller still reads, the search can always move on.
ReadingSearchMoves ==
    (rg.parent = "scan" /\ rg.child = "run") => ENABLED SearchMoves

\* C33: RipgrepGrep and RipgrepGlob return once the cap is reached or the
\* output of rg ends: in no state is rg blocked writing while the caller is
\* blocked in Wait.
C33_NoWriterBlockedWhileWaiting ==
    ~(rg.parent = "wait" /\ RgBlockedWriting)

\* When the output of rg ends, or what is left of it fits into the pipe, the
\* caller gets out of Wait.
WaitEndsWhenTheRestFits ==
    (rg.parent = "wait" /\ rg.child = "run" /\ rg.left + rg.pipe <= PipeCapacity)
        => ENABLED (RgWrite \/ RgExit)

\* The call returned at the cap with output of rg left unread in the pipe.
ReturnedAtTheCap ==
    /\ RgReturned
    /\ rg.taken = RgCap
    /\ rg.pipe > 0

\* The caller waits, rg is blocked writing, and nothing but a hang of rg or
\* the cancellation can still happen.
WaitingOnABlockedWriter ==
    /\ rg.parent = "wait"
    /\ RgBlockedWriting
    /\ ~ENABLED SearchMoves

====
